---- MODULE Spec2Model ----
(***************************************************************************)
(* A model of nix-update-report: the package-identity parsers, the package *)
(* comparison, the flake snapshot diff and its report (src/src/flakes.rs,  *)
(* src/src/packages.rs), the commit parser and its report                  *)
(* (src/src/nixpkgs.rs), and the diff and the report of src/src/main.rs.   *)
(*                                                                         *)
(* Rust Strings are sequences of one-character strings; Option<T> is a     *)
(* sequence of length 0 (None) or 1 (Some); a HashMap is a function on the *)
(* set of its keys; a panic (a failed unwrap) is the value Panic.          *)
(***************************************************************************)
EXTENDS Integers, Sequences, FiniteSets, TLC

\* ------------------------------------------------------------------ bounds

\* Most raw entries in one architecture of a flake json.
MaxPkgs == 2
\* The largest number of commit messages of a list
MaxCommits == 3

\* ----------------------------------------------------------------- strings

Chars(s) == [i \in 1..Len(s) |-> SubSeq(s, i, i)]

None == <<>>
Some(x) == <<x>>
IsSome(o) == Len(o) = 1
Unwrap(o) == o[1]

Panic == [tag |-> "Panic"]

DigitChars == Chars("0123456789")
Digit == {DigitChars[i] : i \in 1..10}
Letter == {c : c \in {Chars("abcdefghijklmnopqrstuvwxyz")[i] : i \in 1..26}
                     \cup {Chars("ABCDEFGHIJKLMNOPQRSTUVWXYZ")[i] : i \in 1..26}}
\* [a-zA-Z0-9]
Alnum == Digit \cup Letter
\* [0-9a-zA-Z.-]
VersionClass == Alnum \cup {".", "-"}
\* what . matches: everything but a line feed
NotNewline(c) == c # "\n"

DigitVal(c) == CHOOSE d \in 0..9 : DigitChars[d + 1] = c

At(s, i) == IF i >= 1 /\ i <= Len(s) THEN s[i] ELSE ""

\* the literals of the regexes and of the format strings
UnstableDash == Chars("unstable-")
DashUnstableDash == Chars("-unstable-")
ColonSpace == Chars(": ")
Arrow == Chars(" -> ")
ToUnparsable == Chars(" -> unparsable")
FromUnparsable == Chars(": unparsable -> ")
DescriptionChanged == Chars(", description changed")

\* s holds the literal lit at position p
StartsWithAt(s, p, lit) ==
    /\ p >= 1
    /\ p + Len(lit) - 1 <= Len(s)
    /\ \A i \in 1..Len(lit) : s[p + i - 1] = lit[i]

\* t occurs in s
Contains(s, t) == \E p \in 1..(Len(s) + 1) : StartsWithAt(s, p, t)

\* The last position of the longest run of characters of class C that
\* starts at position i (i - 1 when the run is empty): a greedy C*.
RECURSIVE RunEnd(_, _, _)
RunEnd(s, i, C) ==
    IF i <= Len(s) /\ s[i] \in C THEN RunEnd(s, i + 1, C) ELSE i - 1

\* u16::MAX, the largest value of one component of PkgVersion::Parsed.numbers
U16Max == 65535

\* str::parse::<u16> on a run of ASCII digits: Some(value), or None (Err)
\* as soon as the value no longer fits 16 bits.
RECURSIVE ParseU16Acc(_, _)
ParseU16Acc(s, acc) ==
    IF s = <<>> THEN Some(acc)
    ELSE LET v == acc * 10 + DigitVal(Head(s))
         IN  IF v > U16Max THEN None ELSE ParseU16Acc(Tail(s), v)

ParseU16(s) == IF s = <<>> THEN None ELSE ParseU16Acc(s, 0)

\* u16::to_string / the Display of an unsigned integer: no leading zeros
RECURSIVE NumToString(_)
NumToString(n) ==
    IF n < 10 THEN <<DigitChars[n + 1]>>
    ELSE NumToString(n \div 10) \o <<DigitChars[(n % 10) + 1]>>

\* the {:0w} format of an unsigned integer
RECURSIVE ZeroPad(_, _)
ZeroPad(s, w) == IF Len(s) >= w THEN s ELSE ZeroPad(<<"0">> \o s, w)

\* str::split(".")
RECURSIVE SplitDots(_)
SplitDots(s) ==
    IF \A i \in 1..Len(s) : s[i] # "." THEN <<s>>
    ELSE LET p == CHOOSE i \in 1..Len(s) :
                      s[i] = "." /\ \A j \in 1..(i - 1) : s[j] # "."
         IN  <<SubSeq(s, 1, p - 1)>> \o SplitDots(SubSeq(s, p + 1, Len(s)))

\* Vec<String>::join(".")
RECURSIVE JoinDots(_)
JoinDots(ss) ==
    IF ss = <<>> THEN <<>>
    ELSE IF Len(ss) = 1 THEN ss[1]
    ELSE ss[1] \o <<".">> \o JoinDots(Tail(ss))

\* ------------------------------------------------------------ time::Date

IsLeapYear(y) == (y % 4 = 0 /\ y % 100 # 0) \/ y % 400 = 0

DaysInMonth(y, m) ==
    IF m = 2 THEN (IF IsLeapYear(y) THEN 29 ELSE 28)
    ELSE IF m \in {4, 6, 9, 11} THEN 30 ELSE 31

\* Date::parse(text, "[year]-[month]-[day]") on a text the regex has matched
\* against \d{4}-\d{2}-\d{2}: Some(date), or None (Err) when the month or the
\* day is out of range.
Date_parse(t) ==
    LET y == Unwrap(ParseU16(SubSeq(t, 1, 4)))
        m == Unwrap(ParseU16(SubSeq(t, 6, 7)))
        d == Unwrap(ParseU16(SubSeq(t, 9, 10)))
    IN  IF m >= 1 /\ m <= 12 /\ d >= 1 /\ d <= DaysInMonth(y, m)
        THEN Some([year |-> y, month |-> m, day |-> d])
        ELSE None

\* the Display of a Date: YYYY-MM-DD
Date_to_string(d) ==
    ZeroPad(NumToString(d.year), 4) \o <<"-">> \o ZeroPad(NumToString(d.month), 2)
        \o <<"-">> \o ZeroPad(NumToString(d.day), 2)

\* ------------------------------------------------ PkgVersion (the regexes)

\* \d{4}-\d{2}-\d{2} at position p
IsDatePattern(s, p) ==
    /\ p >= 1
    /\ p + 9 <= Len(s)
    /\ \A i \in {0, 1, 2, 3, 5, 6, 8, 9} : s[p + i] \in Digit
    /\ s[p + 4] = "-"
    /\ s[p + 7] = "-"

\* The last position of the greedy \d+(?:\.\d+)* that starts at the digit
\* at position i.
RECURSIVE VersionEnd(_, _)
VersionEnd(s, i) ==
    LET e == RunEnd(s, i, Digit)
    IN  IF At(s, e + 1) = "." /\ At(s, e + 2) \in Digit
        THEN VersionEnd(s, e + 2)
        ELSE e

\* The captures of the version regex of flakes.rs, which is not anchored:
\* the match starts at the first digit of the text and every later part is
\* optional, so each greedy choice stands.
VersionCaptures(s) ==
    IF \A i \in 1..Len(s) : s[i] \notin Digit THEN None
    ELSE LET i  == CHOOSE k \in 1..Len(s) :
                       s[k] \in Digit /\ \A j \in 1..(k - 1) : s[j] \notin Digit
             ve == VersionEnd(s, i)
             xe == RunEnd(s, ve + 1, Alnum)
             d  == IF At(s, xe + 1) = "-" THEN xe + 1 ELSE xe
             hasDate == StartsWithAt(s, d + 1, UnstableDash)
                            /\ IsDatePattern(s, d + 10)
         IN  Some([version        |-> SubSeq(s, i, ve),
                   version_extra  |-> IF xe > ve THEN Some(SubSeq(s, ve + 1, xe))
                                      ELSE None,
                   unstable_date  |-> IF hasDate THEN Some(SubSeq(s, d + 10, d + 19))
                                      ELSE None])

\* The captures of the version regex of packages.rs, anchored by ^ and $.
\* The version group is the greedy one (a shorter one leaves a "." or a
\* digit that the rest can take only as the extra group, which the greedy
\* one takes as well).  The extra group is the longest alphanumeric run,
\* unless the text can only end as <extra>unstable-<date>, and then the
\* regex backtracks to the extra group that stops before "unstable".
packages_VersionCaptures(s) ==
    IF At(s, 1) \notin Digit THEN None
    ELSE LET ve == VersionEnd(s, 1)
             xe == RunEnd(s, ve + 1, Alnum)
             n  == Len(s)
             extraTo(e) == IF e > ve THEN Some(SubSeq(s, ve + 1, e)) ELSE None
         IN  IF xe = n \/ (xe + 1 = n /\ s[n] = "-")
             THEN Some([version |-> SubSeq(s, 1, ve),
                        version_extra |-> extraTo(xe),
                        unstable_date |-> None])
             ELSE IF /\ StartsWithAt(s, xe + 1, DashUnstableDash)
                     /\ IsDatePattern(s, xe + 11)
                     /\ xe + 20 = n
             THEN Some([version |-> SubSeq(s, 1, ve),
                        version_extra |-> extraTo(xe),
                        unstable_date |-> Some(SubSeq(s, xe + 11, xe + 20))])
             ELSE IF /\ xe - 8 >= ve
                     /\ StartsWithAt(s, xe - 7, UnstableDash)
                     /\ IsDatePattern(s, xe + 2)
                     /\ xe + 11 = n
             THEN Some([version |-> SubSeq(s, 1, ve),
                        version_extra |-> extraTo(xe - 8),
                        unstable_date |-> Some(SubSeq(s, xe + 2, xe + 11))])
             ELSE None

\* The body of PkgVersion::new once the captures are known (the same text
\* in both files): every unwrap that fails is a panic.
VersionFromCaptures(version_str, captures) ==
    IF IsSome(captures)
    THEN LET caps == Unwrap(captures)
             runs == SplitDots(caps.version)
             nums == [i \in 1..Len(runs) |-> ParseU16(runs[i])]
             date == IF IsSome(caps.unstable_date)
                     THEN Date_parse(Unwrap(caps.unstable_date))
                     ELSE None
         IN  IF \E i \in 1..Len(runs) : ~IsSome(nums[i]) THEN Panic
             ELSE IF IsSome(caps.unstable_date) /\ ~IsSome(date) THEN Panic
             ELSE [tag |-> "Parsed",
                   numbers |-> [i \in 1..Len(runs) |-> Unwrap(nums[i])],
                   extra |-> caps.version_extra,
                   unstable_date |-> date]
    ELSE [tag |-> "Unparsable", str |-> version_str]

\* PkgVersion::new of flakes.rs
PkgVersion_new(version_str) ==
    VersionFromCaptures(version_str, VersionCaptures(version_str))

\* PkgVersion::new of packages.rs
packages_PkgVersion_new(version_str) ==
    VersionFromCaptures(version_str, packages_VersionCaptures(version_str))

\* PkgVersion::to_string (the same text in both files)
PkgVersion_to_string(v) ==
    IF v.tag = "Unparsable" THEN v.str
    ELSE JoinDots([i \in 1..Len(v.numbers) |-> NumToString(v.numbers[i])])
            \o (IF IsSome(v.extra) THEN Unwrap(v.extra) ELSE <<>>)
            \o (IF IsSome(v.unstable_date)
                THEN Date_to_string(Unwrap(v.unstable_date)) ELSE <<>>)

\* ------------------------------------------------------------------ Package

\* The name-version regex can start a version at position p: an optional
\* "unstable-", then a digit.
VersionStartsAt(s, p) ==
    \/ At(s, p) \in Digit
    \/ StartsWithAt(s, p, UnstableDash) /\ At(s, p + 9) \in Digit

\* The positions of a "-" that a version follows
DashPositions(s) == {k \in 1..Len(s) : s[k] = "-" /\ VersionStartsAt(s, k + 1)}

Min(S) == CHOOSE x \in S : \A y \in S : x <= y

\* The captures of the name-version regex of flakes.rs, which is not
\* anchored: the lazy name stops at the first "-" a version follows (and
\* starts after the last line feed before it, which . does not match); the
\* version is the longest run of [0-9a-zA-Z.-] after that "-".
PackageCaptures(s) ==
    IF DashPositions(s) = {} THEN None
    ELSE LET k  == Min(DashPositions(s))
             nl == {j \in 1..(k - 1) : s[j] = "\n"}
             st == IF nl = {} THEN 1 ELSE (CHOOSE j \in nl : \A i \in nl : i <= j) + 1
         IN  Some([name    |-> SubSeq(s, st, k - 1),
                   version |-> SubSeq(s, k + 1, RunEnd(s, k + 1, VersionClass))])

\* The captures of the name-version regex of packages.rs, anchored by ^ and
\* $: the name stops at the first "-" a version follows such that the
\* version runs to the end of the text.
packages_PackageCaptures(s) ==
    LET ok == {k \in DashPositions(s) :
                   /\ \A j \in 1..(k - 1) : NotNewline(s[j])
                   /\ \A j \in (k + 1)..Len(s) : s[j] \in VersionClass}
    IN  IF ok = {} THEN None
        ELSE Some([name    |-> SubSeq(s, 1, Min(ok) - 1),
                   version |-> SubSeq(s, Min(ok) + 1, Len(s))])

\* Package::new of flakes.rs: a panic of PkgVersion::new is a panic of the
\* constructor.
Package_new(full_name, description) ==
    LET captures == PackageCaptures(full_name)
    IN  IF IsSome(captures)
        THEN LET version == PkgVersion_new(Unwrap(captures).version)
             IN  IF version = Panic THEN Panic
                 ELSE [tag |-> "Parsed",
                       name |-> Unwrap(captures).name,
                       version |-> version,
                       description |-> description]
        ELSE [tag |-> "Unparsable", name |-> full_name]

\* Package::new of packages.rs
packages_Package_new(full_name, description) ==
    LET captures == packages_PackageCaptures(full_name)
    IN  IF IsSome(captures)
        THEN LET version == packages_PkgVersion_new(Unwrap(captures).version)
             IN  IF version = Panic THEN Panic
                 ELSE [tag |-> "Parsed",
                       name |-> Unwrap(captures).name,
                       version |-> version,
                       description |-> description]
        ELSE [tag |-> "Unparsable", name |-> full_name]

\* Package::get_name (the same text in both files)
get_name(pkg) == pkg.name

\* ----------------------------------------------------------- PkgCompareData

Unchanged == [tag |-> "Unchanged"]

Changed(change_string, version_change, description_change) ==
    [tag |-> "Changed",
     change_string |-> change_string,
     version_change |-> version_change,
     description_change |-> description_change]

\* A slip: the arm without its check of the names
CompareUnparsableUnparsable_NoNameCheck(old, new) == Some(Unchanged)

\* The arm (Package::Unparsable, Package::Unparsable) of PkgCompareData::new
CompareUnparsableUnparsable(old, new) ==
    IF old.name # new.name THEN None ELSE Some(Unchanged)

\* A slip: the arm reports a version change
CompareParsedUnparsable_VersionFlag(old, new) ==
    IF old.name # new.name THEN None
    ELSE Some(Changed(old.name \o ColonSpace \o PkgVersion_to_string(old.version)
                          \o ToUnparsable,
                      Some(TRUE), None))

\* The arm (Package::Parsed, Package::Unparsable)
CompareParsedUnparsable(old, new) ==
    IF old.name # new.name THEN None
    ELSE Some(Changed(old.name \o ColonSpace \o PkgVersion_to_string(old.version)
                          \o ToUnparsable,
                      None, None))

\* The arm (Package::Unparsable, Package::Parsed)
CompareUnparsableParsed(old, new) ==
    IF old.name # new.name THEN None
    ELSE Some(Changed(old.name \o FromUnparsable \o PkgVersion_to_string(new.version),
                      None, None))

\* A slip: && for || in the test of the arm
CompareParsedParsed_And(old, new) ==
    IF old.name # new.name THEN None
    ELSE IF old.version # new.version /\ old.description # new.description
    THEN Some(Changed(old.name \o ColonSpace \o PkgVersion_to_string(old.version)
                          \o Arrow \o PkgVersion_to_string(new.version)
                          \o (IF old.description # new.description
                              THEN DescriptionChanged ELSE <<>>),
                      Some(old.version # new.version),
                      Some(old.description # new.description)))
    ELSE Some(Unchanged)

\* The arm (Package::Parsed, Package::Parsed)
CompareParsedParsed(old, new) ==
    IF old.name # new.name THEN None
    ELSE IF old.version # new.version \/ old.description # new.description
    THEN Some(Changed(old.name \o ColonSpace \o PkgVersion_to_string(old.version)
                          \o Arrow \o PkgVersion_to_string(new.version)
                          \o (IF old.description # new.description
                              THEN DescriptionChanged ELSE <<>>),
                      Some(old.version # new.version),
                      Some(old.description # new.description)))
    ELSE Some(Unchanged)

\* PkgCompareData::new (the same text in both files): None when the names
\* differ, Some(Changed) or Some(Unchanged) otherwise.
PkgCompareData_new(old, new) ==
    IF old.tag = "Unparsable" /\ new.tag = "Unparsable"
    THEN CompareUnparsableUnparsable(old, new)
    ELSE IF old.tag = "Parsed" /\ new.tag = "Unparsable"
    THEN CompareParsedUnparsable(old, new)
    ELSE IF old.tag = "Unparsable" /\ new.tag = "Parsed"
    THEN CompareUnparsableParsed(old, new)
    ELSE CompareParsedParsed(old, new)

\* ---------------------------------------------------------------- FlakePkgs

\* pkg_value["description"].as_str().map_or(None, ..): a description that
\* is missing, not a string or the empty string is None.
DescriptionOf(pkg_value) ==
    IF IsSome(pkg_value.description) /\ Unwrap(pkg_value.description) # <<>>
    THEN Some(Unwrap(pkg_value.description))
    ELSE None

\* The package FlakePkgs::new builds from one raw entry
PkgOf(pkg_value) == Package_new(pkg_value.name, DescriptionOf(pkg_value))

\* A slip: the package is inserted under its full name
RECURSIVE InsertPkgs_FullNameKey(_, _)
InsertPkgs_FullNameKey(new_ps, pkgs) ==
    IF pkgs = <<>> THEN new_ps
    ELSE InsertPkgs_FullNameKey((Head(pkgs).name :> PkgOf(Head(pkgs))) @@ new_ps,
                                Tail(pkgs))

\* A slip: an insert under a key already there keeps the earlier package
RECURSIVE InsertPkgs_FirstWins(_, _)
InsertPkgs_FirstWins(new_ps, pkgs) ==
    IF pkgs = <<>> THEN new_ps
    ELSE LET new_pkg == PkgOf(Head(pkgs))
         IN  InsertPkgs_FirstWins(new_ps @@ (get_name(new_pkg) :> new_pkg), Tail(pkgs))

\* The inner loop of FlakePkgs::new: the PkgMap of one architecture, the
\* raw entries taken in the order the json object yields them; an insert
\* under a key already there replaces the package.
RECURSIVE InsertPkgs(_, _)
InsertPkgs(new_ps, pkgs) ==
    IF pkgs = <<>> THEN new_ps
    ELSE LET new_pkg == PkgOf(Head(pkgs))
         IN  InsertPkgs((get_name(new_pkg) :> new_pkg) @@ new_ps, Tail(pkgs))

EmptyMap == [k \in {} |-> k]

\* The tuple struct FlakePkgs(HashMap<String, PkgMap>): map is its field 0
FlakePkgs(map) == [tag |-> "FlakePkgs", map |-> map]

\* A slip: the "{}" test is left out and an empty architecture is kept
FlakePkgs_new_KeepEmpty(flake_json) ==
    IF \E arch \in DOMAIN flake_json : \E i \in 1..Len(flake_json[arch]) :
           PkgOf(flake_json[arch][i]) = Panic
    THEN Panic
    ELSE FlakePkgs([arch \in DOMAIN flake_json |-> InsertPkgs(EmptyMap, flake_json[arch])])

\* FlakePkgs::new: flake_json maps each architecture of the "packages"
\* output to the sequence of its raw entries; an architecture whose json
\* object is "{}" is left out; a panic of Package::new is a panic of the
\* constructor.
FlakePkgs_new(flake_json) ==
    LET archs == {arch \in DOMAIN flake_json : flake_json[arch] # <<>>}
    IN  IF \E arch \in archs : \E i \in 1..Len(flake_json[arch]) :
               PkgOf(flake_json[arch][i]) = Panic
        THEN Panic
        ELSE FlakePkgs([arch \in archs |-> InsertPkgs(EmptyMap, flake_json[arch])])

\* ----------------------------------------------------- FlakePkgsCompareData

\* The orders in which a HashMap or a HashSet may yield the elements of S
RECURSIVE Orders(_)
Orders(S) ==
    IF S = {} THEN {<<>>}
    ELSE UNION {{<<x>> \o o : o \in Orders(S \ {x})} : x \in S}

\* All functions f on D with f[d] in R[d]
RECURSIVE DepFuns(_, _)
DepFuns(D, R) ==
    IF D = {} THEN {EmptyMap}
    ELSE LET d == CHOOSE x \in D : TRUE
         IN  {(d :> v) @@ f : v \in R[d], f \in DepFuns(D \ {d}, R)}

\* The elements of a sequence, what collect::<HashSet<_>>() keeps of it
Range(seq) == {seq[i] : i \in 1..Len(seq)}

\* Iterator::filter(..).collect() over a sequence: the elements that are
\* in Keep, in the order of the sequence
RECURSIVE Filter(_, _)
Filter(seq, Keep) ==
    IF seq = <<>> THEN <<>>
    ELSE (IF Head(seq) \in Keep THEN <<Head(seq)>> ELSE <<>>) \o Filter(Tail(seq), Keep)

comparable_archs(old, new) == (DOMAIN old.map) \cap (DOMAIN new.map)

\* The iteration orders FlakePkgsCompareData::new meets: of the keys of old
\* and of new, and, for every comparable architecture, of the keys of its
\* old and of its new PkgMap.
IterationOrders(old, new) ==
    LET OldKeys == [arch \in comparable_archs(old, new) |-> Orders(DOMAIN old.map[arch])]
        NewKeys == [arch \in comparable_archs(old, new) |-> Orders(DOMAIN new.map[arch])]
    IN  {[old_archs |-> oa, new_archs |-> na, old_pkgs |-> op, new_pkgs |-> np] :
            oa \in Orders(DOMAIN old.map), na \in Orders(DOMAIN new.map),
            op \in DepFuns(comparable_archs(old, new), OldKeys),
            np \in DepFuns(comparable_archs(old, new), NewKeys)}

\* A slip: the loop pushes every shared package, Unchanged ones too
UpdatedPkgs_UnchangedToo(old_pkgs, new_pkgs, old_order) ==
    LET names == Filter(old_order, (DOMAIN old_pkgs) \cap (DOMAIN new_pkgs))
    IN  [i \in 1..Len(names) |->
            <<new_pkgs[names[i]],
              Unwrap(PkgCompareData_new(old_pkgs[names[i]], new_pkgs[names[i]]))>>]

\* The loop "Find updated and removed packages", its updated list: the
\* shared names whose comparison is not Unchanged, in the order old_pkgs
\* yields them, each with the new package and the compare data.  (Only
\* used when no comparison is None.)
UpdatedPkgs(old_pkgs, new_pkgs, old_order) ==
    LET names == Filter(old_order,
                        {name \in (DOMAIN old_pkgs) \cap (DOMAIN new_pkgs) :
                            PkgCompareData_new(old_pkgs[name], new_pkgs[name])
                                # Some(Unchanged)})
    IN  [i \in 1..Len(names) |->
            <<new_pkgs[names[i]],
              Unwrap(PkgCompareData_new(old_pkgs[names[i]], new_pkgs[names[i]]))>>]

\* A slip: the loop pushes every old package to removed
RemovedPkgs_All(old_pkgs, new_pkgs, old_order) ==
    [i \in 1..Len(old_order) |-> old_pkgs[old_order[i]]]

\* A slip: removed holds the new package of a shared name as well
RemovedPkgs_SharedToo(old_pkgs, new_pkgs, old_order) ==
    [i \in 1..Len(old_order) |->
        IF old_order[i] \in DOMAIN new_pkgs THEN new_pkgs[old_order[i]]
        ELSE old_pkgs[old_order[i]]]

\* The same loop, its removed list: the old packages whose name new_pkgs
\* does not hold
RemovedPkgs(old_pkgs, new_pkgs, old_order) ==
    LET names == Filter(old_order, (DOMAIN old_pkgs) \ (DOMAIN new_pkgs))
    IN  [i \in 1..Len(names) |-> old_pkgs[names[i]]]

\* A slip: the test of the loop without its negation
AddedPkgs_NotNegated(old_pkgs, new_pkgs, new_order) ==
    LET names == Filter(new_order, (DOMAIN new_pkgs) \cap (DOMAIN old_pkgs))
    IN  [i \in 1..Len(names) |-> new_pkgs[names[i]]]

\* The loop "Find new packages": the new packages whose name old_pkgs does
\* not hold, in the order new_pkgs yields them
AddedPkgs(old_pkgs, new_pkgs, new_order) ==
    LET names == Filter(new_order, (DOMAIN new_pkgs) \ (DOMAIN old_pkgs))
    IN  [i \in 1..Len(names) |-> new_pkgs[names[i]]]

\* A slip: the old packages are counted
SingleArchTotalPkgs_Old(old_pkgs, new_pkgs) == Cardinality(DOMAIN old_pkgs)

\* total_pkgs: new_pkgs.len()
SingleArchTotalPkgs(old_pkgs, new_pkgs) == Cardinality(DOMAIN new_pkgs)

\* The body of the loop over comparable_archs: the compare data of one
\* architecture, or Panic when PkgCompareData::new(..).unwrap() meets None.
SingleArchCompareData(old_pkgs, new_pkgs, old_order, new_order) ==
    IF \E name \in (DOMAIN old_pkgs) \cap (DOMAIN new_pkgs) :
           ~IsSome(PkgCompareData_new(old_pkgs[name], new_pkgs[name]))
    THEN Panic
    ELSE [added      |-> AddedPkgs(old_pkgs, new_pkgs, new_order),
          updated    |-> UpdatedPkgs(old_pkgs, new_pkgs, old_order),
          removed    |-> RemovedPkgs(old_pkgs, new_pkgs, old_order),
          total_pkgs |-> SingleArchTotalPkgs(old_pkgs, new_pkgs)]

\* added_archs: the keys of new that are not comparable, in the order new
\* yields them
AddedArchs(old, new, new_archs) ==
    Filter(new_archs, (DOMAIN new.map) \ comparable_archs(old, new))

\* A slip: the filter is missing
RemovedArchs_Unfiltered(old, new, old_archs) == old_archs

\* removed_archs: the keys of old that are not comparable
RemovedArchs(old, new, old_archs) ==
    Filter(old_archs, (DOMAIN old.map) \ comparable_archs(old, new))

\* A slip: the architectures of old are counted
TotalArchs_Old(old, new) == Cardinality(DOMAIN old.map)

\* total_archs: new.0.len()
TotalArchs(old, new) == Cardinality(DOMAIN new.map)

\* FlakePkgsCompareData::new under the iteration orders ord
FlakePkgsCompareData_new(old, new, ord) ==
    LET comparable == comparable_archs(old, new)
        Single(arch) == SingleArchCompareData(old.map[arch], new.map[arch],
                                              ord.old_pkgs[arch], ord.new_pkgs[arch])
    IN  IF \E arch \in comparable : Single(arch) = Panic THEN Panic
        ELSE [pkg_data      |-> [arch \in comparable |-> Single(arch)],
              removed_archs |-> RemovedArchs(old, new, ord.old_archs),
              added_archs   |-> AddedArchs(old, new, ord.new_archs),
              total_archs   |-> TotalArchs(old, new)]

\* FlakePkgsCompareData::total_pkgs
\* Iterator::sum over the values f[x], x in S
RECURSIVE SumOver(_, _)
SumOver(S, f) ==
    IF S = {} THEN 0
    ELSE LET x == CHOOSE y \in S : TRUE IN f[x] + SumOver(S \ {x}, f)

total_pkgs(compare_data) ==
    SumOver(DOMAIN compare_data.pkg_data,
            [arch \in DOMAIN compare_data.pkg_data |->
                compare_data.pkg_data[arch].total_pkgs])

\* ------------------------------------------------------------ NixpkgsCommit

\* what \S does not match (of the characters the messages are made of)
Whitespace == {" ", "\t", "\n", "\r"}

DropLit == Chars("drop")
InitLit == Chars("init")

\* The last position of the longest run of \S that starts at position i
RECURSIVE NonSpaceRunEnd(_, _)
NonSpaceRunEnd(s, i) ==
    IF i <= Len(s) /\ s[i] \notin Whitespace THEN NonSpaceRunEnd(s, i + 1) ELSE i - 1

\* The positions q of a "]" that can end the optional (?:\[.+\] ): the text
\* starts with "[", at least one character that is no line feed lies
\* between, and a blank follows
TagEnds(s) ==
    {q \in 3..(Len(s) - 1) :
        /\ s[1] = "["
        /\ s[q] = "]"
        /\ s[q + 1] = " "
        /\ \A j \in 2..(q - 1) : NotNewline(s[j])}

\* (?<action>drop|init|(?:[A-Za-z0-9-.]+ -> [A-Za-z0-9-.]+)) at position a:
\* the alternatives are tried in this order and nothing follows the group,
\* so the first that matches stands.
ActionAt(s, a) ==
    IF StartsWithAt(s, a, DropLit) THEN Some(DropLit)
    ELSE IF StartsWithAt(s, a, InitLit) THEN Some(InitLit)
    ELSE LET r1 == RunEnd(s, a, VersionClass)
             r2 == RunEnd(s, r1 + 5, VersionClass)
         IN  IF r1 >= a /\ StartsWithAt(s, r1 + 1, Arrow) /\ r2 >= r1 + 5
             THEN Some(SubSeq(s, a, r2))
             ELSE None

\* (?<name>\S+): (?<action>..) at position st: the greedy \S+ takes the
\* whole run that has no whitespace, and gives back exactly its last
\* character when that is the ":" a blank follows.
NameActionAt(s, st) ==
    LET e == NonSpaceRunEnd(s, st)
    IN  IF e - 1 >= st /\ s[e] = ":" /\ At(s, e + 1) = " " /\ IsSome(ActionAt(s, e + 2))
        THEN Some([name |-> SubSeq(s, st, e - 1), action |-> Unwrap(ActionAt(s, e + 2))])
        ELSE None

\* The captures of the regex of NixpkgsCommit::new, anchored at the start
\* only: the tag is tried first, its greedy .+ from the longest down, then
\* the match without a tag.
CommitCaptures(s) ==
    LET tagged == {q \in TagEnds(s) : IsSome(NameActionAt(s, q + 2))}
    IN  IF tagged # {}
        THEN NameActionAt(s, (CHOOSE q \in tagged : \A r \in tagged : r <= q) + 2)
        ELSE NameActionAt(s, 1)

Add(name) == [tag |-> "Add", name |-> name]
Remove(name) == [tag |-> "Remove", name |-> name]
Update(name, version) == [tag |-> "Update", name |-> name, version |-> version]
CommitUnparsable(message) == [tag |-> "Unparsable", message |-> message]

\* A slip: the arms of the match are swapped
NixpkgsCommit_new_Swapped(commit_message) ==
    LET captures == CommitCaptures(commit_message)
    IN  IF IsSome(captures)
        THEN LET name == Unwrap(captures).name
                 action == Unwrap(captures).action
             IN  IF action = InitLit THEN Remove(name)
                 ELSE IF action = DropLit THEN Add(name)
                 ELSE Update(name, action)
        ELSE CommitUnparsable(commit_message)

\* NixpkgsCommit::new
NixpkgsCommit_new(commit_message) ==
    LET captures == CommitCaptures(commit_message)
    IN  IF IsSome(captures)
        THEN LET name == Unwrap(captures).name
                 action == Unwrap(captures).action
             IN  IF action = InitLit THEN Add(name)
                 ELSE IF action = DropLit THEN Remove(name)
                 ELSE Update(name, action)
        ELSE CommitUnparsable(commit_message)

\* The tuple struct Nixpkgs(Vec<NixpkgsCommit>): list is its field 0
Nixpkgs(list) == [tag |-> "Nixpkgs", list |-> list]

\* A slip: a message seen before is skipped
RECURSIVE Nixpkgs_new_Dedup(_)
Nixpkgs_new_Dedup(commits) ==
    IF commits = <<>> THEN Nixpkgs(<<>>)
    ELSE LET front == SubSeq(commits, 1, Len(commits) - 1)
             last == commits[Len(commits)]
             rest == Nixpkgs_new_Dedup(front)
         IN  IF \E i \in 1..Len(front) : front[i] = last THEN rest
             ELSE Nixpkgs(Append(rest.list, NixpkgsCommit_new(last)))

\* commits.iter().map(|val| NixpkgsCommit::new(val)).collect(): the iterator
\* yields the messages from the first on and collect pushes each result
RECURSIVE MapCollect(_)
MapCollect(commits) ==
    IF commits = <<>> THEN <<>>
    ELSE <<NixpkgsCommit_new(Head(commits))>> \o MapCollect(Tail(commits))

\* Nixpkgs::new
Nixpkgs_new(commits) == Nixpkgs(MapCollect(commits))

\* ------------------------------------------------- Nixpkgs::generate_report

\* The characters of the messages in the order of their bytes, the order
\* in which String compares
ByteOrder == Chars("\t\n\r ()-.0123456789:>ABCDEFGHIJKLMNOPQRSTUVWXYZ[]_abcdefghijklmnopqrstuvwxyz")

Byte(c) == CHOOSE i \in 1..Len(ByteOrder) : ByteOrder[i] = c

\* a < b for two Strings: the bytes are compared in turn, and a proper
\* prefix is less
RECURSIVE StringLess(_, _)
StringLess(a, b) ==
    IF b = <<>> THEN FALSE
    ELSE IF a = <<>> THEN TRUE
    ELSE IF Head(a) # Head(b) THEN Byte(Head(a)) < Byte(Head(b))
    ELSE StringLess(Tail(a), Tail(b))

\* v is put into the sorted list at its place, after the elements equal to it
RECURSIVE InsertSorted(_, _)
InsertSorted(sorted, v) ==
    IF sorted = <<>> THEN <<v>>
    ELSE IF StringLess(v, Head(sorted)) THEN <<v>> \o sorted
    ELSE <<Head(sorted)>> \o InsertSorted(Tail(sorted), v)

\* Vec<String>::sort
RECURSIVE Sort(_)
Sort(list) ==
    IF list = <<>> THEN <<>>
    ELSE InsertSorted(Sort(SubSeq(list, 1, Len(list) - 1)), list[Len(list)])

DashPrefix == Chars(" - ")
LineFeed == Chars("\n")

\* format!(" - {}\n", name) and format!(" - {}: {}\n", name, version)
NameLine(name) == DashPrefix \o name \o LineFeed
UpdateLine(name, version) == DashPrefix \o name \o ColonSpace \o version \o LineFeed

\* The three filter_map calls, before the collect
AddedLines(self) ==
    LET adds == Filter(self.list, {c \in Range(self.list) : c.tag = "Add"})
    IN  [i \in 1..Len(adds) |-> NameLine(adds[i].name)]

UpdatedLines(self) ==
    LET updates == Filter(self.list, {c \in Range(self.list) : c.tag = "Update"})
    IN  [i \in 1..Len(updates) |-> UpdateLine(updates[i].name, updates[i].version)]

RemovedLines(self) ==
    LET removes == Filter(self.list, {c \in Range(self.list) : c.tag = "Remove"})
    IN  [i \in 1..Len(removes) |-> NameLine(removes[i].name)]

\* The orders in which the three HashSets may yield their lines
ReportOrders(self) ==
    [added   : Orders(Range(AddedLines(self))),
     updated : Orders(Range(UpdatedLines(self))),
     removed : Orders(Range(RemovedLines(self)))]

\* A slip: the lines are collected into the Vec without the HashSet
SortedUpdated_NoHashSet(self, updated_order) == Sort(UpdatedLines(self))

\* let mut updated: the lines collected into a HashSet, copied into a Vec in
\* the order the set yields them, then sorted
SortedUpdated(self, updated_order) == Sort(updated_order)

HeaderTitle == Chars("## nix-update-report - nixpkgs\n")
\* The character U+0060, which no TLA+ string can hold
Backquote == "<backquote>"
HashOpen == Chars("Hash: ") \o <<Backquote>>
HashClose == <<Backquote>> \o Chars("\n")
GeneratedUsing ==
    Chars("Report generated using [") \o <<Backquote>> \o Chars("nix-update-report")
        \o <<Backquote>>
        \o Chars("](https://github.com/aldenparker/nix-update-report.git).\n")
StatsTitle == Chars("### Stats\n")
PkgsAdded == Chars("Pkgs Added: ")
PkgUpdates == Chars("Pkg Updates: ")
PkgsRemoved == Chars("Pkgs Removed: ")
AddedTitle == Chars("### Added\n")
UpdatedTitle == Chars("### Updated\n")
RemovedTitle == Chars("### Removed\n")

\* Nixpkgs::generate_report: the String it returns, as the sequence of its
\* lines (each with its line feed); ord is the order in which each HashSet
\* yields its lines.
Nixpkgs_generate_report(self, base_hash, head_hash, ord) ==
    LET updated == SortedUpdated(self, ord.updated)
    IN  <<HeaderTitle,
          HashOpen \o base_hash \o Arrow \o head_hash \o HashClose,
          GeneratedUsing,
          LineFeed,
          StatsTitle,
          PkgsAdded \o NumToString(Len(ord.added)) \o LineFeed,
          PkgUpdates \o NumToString(Len(updated)) \o LineFeed,
          PkgsRemoved \o NumToString(Len(ord.removed)) \o LineFeed,
          LineFeed,
          AddedTitle>>
          \o ord.added
          \o <<LineFeed, UpdatedTitle>>
          \o updated
          \o <<LineFeed, RemovedTitle>>
          \o ord.removed
          \o <<LineFeed>>

\* ------------------------------------ FlakePkgsCompareData::generate_report

\* push_str over the strings of an iterator, in its order
RECURSIVE Concat(_)
Concat(strings) ==
    IF strings = <<>> THEN <<>> ELSE Head(strings) \o Concat(Tail(strings))

\* Iterator::reduce(|mut acc, e| { acc.push_str(e.as_str()); acc }): None
\* when the iterator yields nothing
Reduce(strings) == IF strings = <<>> THEN None ELSE Some(Concat(strings))

\* Option::unwrap_or
UnwrapOr(o, default) == IF IsSome(o) THEN Unwrap(o) ELSE default

\* Iterator::sum over the elements of a sequence
RECURSIVE Sum(_)
Sum(numbers) == IF numbers = <<>> THEN 0 ELSE Head(numbers) + Sum(Tail(numbers))

NoneLit == Chars("None")
UnparsableLine == Chars(": unparsable\n")

\* The match of the added and of the removed list: the line of one package
PkgLine(pkg) ==
    IF pkg.tag = "Unparsable" THEN DashPrefix \o pkg.name \o UnparsableLine
    ELSE DashPrefix \o pkg.name \o ColonSpace \o PkgVersion_to_string(pkg.version)
            \o LineFeed

\* let added, let removed: the lines of the list, one after the other, or
\* "None"
PkgLines(list) == UnwrapOr(Reduce([i \in 1..Len(list) |-> PkgLine(list[i])]), NoneLit)

\* let updated: the change strings of the list, one after the other, or
\* "None"; only called when every element is Changed
UpdatedChanges(updated) ==
    UnwrapOr(Reduce([i \in 1..Len(updated) |-> updated[i][2].change_string]), NoneLit)

\* The section of one architecture in "Pkg Changes"
ArchSection(arch, pkgs) ==
    Chars("#### ") \o Chars(arch) \o LineFeed
        \o Chars("##### Added\n") \o PkgLines(pkgs.added) \o LineFeed
        \o Chars("##### Updated\n") \o UpdatedChanges(pkgs.updated) \o LineFeed
        \o Chars("##### Removed\n") \o PkgLines(pkgs.removed) \o LineFeed

\* A slip: the count of the updated list is written for Added
ArchStats_UpdatedForAdded(arch, data) ==
    Chars("##### ") \o Chars(arch) \o LineFeed
        \o Chars("Added: ") \o NumToString(Len(data.updated)) \o LineFeed
        \o Chars("Updated: ") \o NumToString(Len(data.updated)) \o LineFeed
        \o Chars("Removed: ") \o NumToString(Len(data.removed)) \o LineFeed
        \o Chars("Total: ") \o NumToString(data.total_pkgs) \o LineFeed
        \o LineFeed

\* The stats of one architecture in "By Arch"
ArchStats(arch, data) ==
    Chars("##### ") \o Chars(arch) \o LineFeed
        \o Chars("Added: ") \o NumToString(Len(data.added)) \o LineFeed
        \o Chars("Updated: ") \o NumToString(Len(data.updated)) \o LineFeed
        \o Chars("Removed: ") \o NumToString(Len(data.removed)) \o LineFeed
        \o Chars("Total: ") \o NumToString(data.total_pkgs) \o LineFeed
        \o LineFeed

\* The report down to the empty line after the totals; pkg_order is the
\* order in which self.pkg_data yields its architectures
ReportHead(self, title, pkg_order) ==
    LET data(i) == self.pkg_data[pkg_order[i]]
        n == Len(pkg_order)
    IN  Chars("## nix-update-report")
            \o (IF IsSome(title) THEN Chars(" - ") \o Unwrap(title) ELSE <<>>) \o LineFeed
            \o GeneratedUsing
            \o LineFeed
            \o Chars("### Stats\n")
            \o Chars("#### By Arch\n")
            \o UnwrapOr(Reduce([i \in 1..n |-> ArchStats(pkg_order[i], data(i))]), <<>>)
            \o Chars("#### Totals\n")
            \o Chars("Added Pkgs: ")
            \o NumToString(Sum([i \in 1..n |-> Len(data(i).added)])) \o LineFeed
            \o Chars("Updated Pkgs: ")
            \o NumToString(Sum([i \in 1..n |-> Len(data(i).updated)])) \o LineFeed
            \o Chars("Removed Pkgs: ")
            \o NumToString(Sum([i \in 1..n |-> Len(data(i).removed)])) \o LineFeed
            \o Chars("Pkgs: ") \o NumToString(total_pkgs(self)) \o LineFeed
            \o Chars("Added Archs: ") \o NumToString(Len(self.added_archs)) \o LineFeed
            \o Chars("Removed Archs: ") \o NumToString(Len(self.removed_archs)) \o LineFeed
            \o Chars("Archs: ") \o NumToString(self.total_archs) \o LineFeed
            \o LineFeed

\* FlakePkgsCompareData::generate_report: the String it returns, or Panic
\* when an element of an updated list meets unreachable!()
FlakePkgsCompareData_generate_report(self, title, pkg_order) ==
    IF \E arch \in DOMAIN self.pkg_data :
           \E i \in 1..Len(self.pkg_data[arch].updated) :
               self.pkg_data[arch].updated[i][2].tag # "Changed"
    THEN Panic
    ELSE ReportHead(self, title, pkg_order)
            \o Chars("### Pkg Changes\n")
            \o UnwrapOr(Reduce([i \in 1..Len(pkg_order) |->
                            ArchSection(pkg_order[i], self.pkg_data[pkg_order[i]])]),
                        <<>>)

\* ------------------------------------------------------- main.rs: Packages

\* enum Package of main.rs
main_Filled(name, version, description) ==
    [tag |-> "Filled", name |-> name, version |-> version, description |-> description]
main_Empty(name) == [tag |-> "Empty", name |-> name]

Unknown == Chars("unknown")

\* The result of std::process::exit(1)
Exit == [tag |-> "Exit"]

\* The closure of Packages::new over the entries of an architecture: the
\* package of the attribute key, whose json value has a "name" (None when
\* null) and a "description" (None when it is not a string); Panic when
\* value["description"].as_str().unwrap() meets None.
main_PkgOf(key, value) ==
    IF IsSome(value.name)
    THEN IF ~IsSome(value.description) THEN Panic
         ELSE LET captures == PackageCaptures(Unwrap(value.name))
              IN  IF IsSome(captures)
                  THEN main_Filled(Unwrap(captures).name, Unwrap(captures).version,
                                   Unwrap(value.description))
                  ELSE main_Filled(Unwrap(value.name), Unknown, Unwrap(value.description))
    ELSE main_Empty(Chars(key))

\* struct Packages
main_Packages(package_map, all_systems) ==
    [tag |-> "Packages", package_map |-> package_map, all_systems |-> all_systems]

\* Packages::new, from the "legacyPackages" object the command printed:
\* an architecture whose object is "{}" is left out, and the process exits
\* when none is left.
Packages_new(legacy_packages, all) ==
    LET archs == {arch \in DOMAIN legacy_packages : legacy_packages[arch] # EmptyMap}
    IN  IF \E arch \in archs : \E key \in DOMAIN legacy_packages[arch] :
               main_PkgOf(key, legacy_packages[arch][key]) = Panic
        THEN Panic
        ELSE IF archs = {} THEN Exit
        ELSE main_Packages([arch \in archs |->
                               [key \in DOMAIN legacy_packages[arch] |->
                                   main_PkgOf(key, legacy_packages[arch][key])]],
                           all)

\* --------------------------------------------- main.rs: PackagesCompareData

\* The iteration orders PackagesCompareData::new meets: of the
\* architectures of prev and of next, of the packages of each architecture
\* of prev that next holds too, and of each architecture of next
main_IterationOrders(prev, next) ==
    LET shared == (DOMAIN prev.package_map) \cap (DOMAIN next.package_map)
        PrevKeys == [arch \in shared |-> Orders(DOMAIN prev.package_map[arch])]
        NextKeys == [arch \in DOMAIN next.package_map |->
                        Orders(DOMAIN next.package_map[arch])]
    IN  {[prev_archs |-> pa, next_archs |-> na, prev_pkgs |-> pp, next_pkgs |-> np] :
            pa \in Orders(DOMAIN prev.package_map),
            na \in Orders(DOMAIN next.package_map),
            pp \in DepFuns(shared, PrevKeys),
            np \in DepFuns(DOMAIN next.package_map, NextKeys)}

\* let added_packages: the packages of next_pkg_map whose key pkg_map lacks
main_AddedPackages(pkg_map, next_pkg_map, next_order) ==
    LET keys == Filter(next_order, (DOMAIN next_pkg_map) \ (DOMAIN pkg_map))
    IN  [i \in 1..Len(keys) |-> next_pkg_map[keys[i]]]

\* removed_packages: the packages of pkg_map whose key next_pkg_map lacks
main_RemovedPackages(pkg_map, next_pkg_map, prev_order) ==
    LET keys == Filter(prev_order, (DOMAIN pkg_map) \ (DOMAIN next_pkg_map))
    IN  [i \in 1..Len(keys) |-> pkg_map[keys[i]]]

\* A slip: the test val != next_pkg is left out
main_UpdatedPackages_SameToo(pkg_map, next_pkg_map, prev_order) ==
    LET keys == Filter(prev_order, (DOMAIN pkg_map) \cap (DOMAIN next_pkg_map))
    IN  [i \in 1..Len(keys) |-> <<pkg_map[keys[i]], next_pkg_map[keys[i]]>>]

\* updated_packages: the pairs of the packages of a shared key that differ
main_UpdatedPackages(pkg_map, next_pkg_map, prev_order) ==
    LET keys == Filter(prev_order,
                       {key \in (DOMAIN pkg_map) \cap (DOMAIN next_pkg_map) :
                           pkg_map[key] # next_pkg_map[key]})
    IN  [i \in 1..Len(keys) |-> <<pkg_map[keys[i]], next_pkg_map[keys[i]]>>]

\* same_packages: the packages of a shared key that are equal
main_SamePackages(pkg_map, next_pkg_map, prev_order) ==
    LET keys == Filter(prev_order,
                       {key \in (DOMAIN pkg_map) \cap (DOMAIN next_pkg_map) :
                           pkg_map[key] = next_pkg_map[key]})
    IN  [i \in 1..Len(keys) |-> pkg_map[keys[i]]]

\* PackagesCompareData::new under the iteration orders ord: pkg_data has an
\* entry for every architecture of next, one of prev too compared, a new
\* one with all its packages added
PackagesCompareData_new(prev, next, ord) ==
    LET shared == (DOMAIN prev.package_map) \cap (DOMAIN next.package_map)
        Compared(arch) ==
            LET pkg_map == prev.package_map[arch]
                next_pkg_map == next.package_map[arch]
            IN  [added   |-> main_AddedPackages(pkg_map, next_pkg_map, ord.next_pkgs[arch]),
                 updated |-> main_UpdatedPackages(pkg_map, next_pkg_map, ord.prev_pkgs[arch]),
                 removed |-> main_RemovedPackages(pkg_map, next_pkg_map, ord.prev_pkgs[arch]),
                 same    |-> main_SamePackages(pkg_map, next_pkg_map, ord.prev_pkgs[arch])]
        New(arch) ==
            [added   |-> [i \in 1..Len(ord.next_pkgs[arch]) |->
                             next.package_map[arch][ord.next_pkgs[arch][i]]],
             updated |-> <<>>,
             removed |-> <<>>,
             same    |-> <<>>]
    IN  [pkg_data      |-> [arch \in DOMAIN next.package_map |->
                               IF arch \in shared THEN Compared(arch) ELSE New(arch)],
         removed_archs |-> Filter(ord.prev_archs, (DOMAIN prev.package_map) \ shared),
         added_archs   |-> Filter(ord.next_archs, (DOMAIN next.package_map) \ shared)]

\* PackagesCompareData::generate_stats, or Panic when the reduce of
\* total_unique_pkgs yields None
generate_stats(self) ==
    LET archs == DOMAIN self.pkg_data
        total_added_by_arch == [arch \in archs |-> Len(self.pkg_data[arch].added)]
        total_updated_by_arch == [arch \in archs |-> Len(self.pkg_data[arch].updated)]
        total_removed_by_arch == [arch \in archs |-> Len(self.pkg_data[arch].removed)]
        total_same_by_arch == [arch \in archs |-> Len(self.pkg_data[arch].same)]
        total_pkgs_by_arch ==
            [arch \in archs |->
                total_added_by_arch[arch] + total_updated_by_arch[arch]
                    + total_removed_by_arch[arch] + total_same_by_arch[arch]]
        names(arch) ==
            {self.pkg_data[arch].added[i].name :
                i \in 1..Len(self.pkg_data[arch].added)}
            \cup {self.pkg_data[arch].updated[i][1].name :
                i \in 1..Len(self.pkg_data[arch].updated)}
            \cup {self.pkg_data[arch].removed[i].name :
                i \in 1..Len(self.pkg_data[arch].removed)}
            \cup {self.pkg_data[arch].same[i].name :
                i \in 1..Len(self.pkg_data[arch].same)}
    IN  IF archs = {} THEN Panic
        ELSE [total_added_by_arch   |-> total_added_by_arch,
              total_updated_by_arch |-> total_updated_by_arch,
              total_removed_by_arch |-> total_removed_by_arch,
              total_same_by_arch    |-> total_same_by_arch,
              total_added           |-> SumOver(archs, total_added_by_arch),
              total_updated         |-> SumOver(archs, total_updated_by_arch),
              total_removed         |-> SumOver(archs, total_removed_by_arch),
              total_same            |-> SumOver(archs, total_same_by_arch),
              total_pkgs_by_arch    |-> total_pkgs_by_arch,
              total_pkgs            |-> SumOver(archs, total_pkgs_by_arch),
              total_unique_pkgs     |-> Cardinality(UNION {names(arch) : arch \in archs}),
              total_removed_archs   |-> Len(self.removed_archs),
              total_added_archs     |-> Len(self.added_archs),
              total_archs           |-> Cardinality(archs)]

\* ------------------------------------------------- main.rs: genrate_report

\* The panic of unreachable!()
Unreachable == [tag |-> "Unreachable"]

\* The match of the added and of the removed list: the line of one package
main_PkgLine(pkg) ==
    IF pkg.tag = "Empty" THEN DashPrefix \o pkg.name \o Chars(": unknown\n")
    ELSE DashPrefix \o pkg.name \o ColonSpace \o pkg.version \o LineFeed

\* The match of the updated list: the line of a pair that is not
\* (Empty, Empty)
main_UpdateLine(pkg) ==
    IF pkg[1].tag = "Empty"
    THEN DashPrefix \o pkg[2].name \o Chars(": unknown -> ") \o pkg[2].version \o LineFeed
    ELSE IF pkg[2].tag = "Empty"
    THEN DashPrefix \o pkg[1].name \o ColonSpace \o pkg[1].version
            \o Chars(" -> unknown\n")
    ELSE DashPrefix \o pkg[1].name \o ColonSpace \o pkg[1].version \o Arrow
            \o pkg[2].version \o LineFeed

\* let added, let updated, let removed of the closure over pkg_data, in
\* this order: each is .reduce(..).unwrap(), a panic when its list is
\* empty, and the match of updated meets unreachable!() at a pair
\* (Empty, Empty)
main_Lists(pkgs) ==
    IF pkgs.added = <<>> THEN Panic
    ELSE IF \E i \in 1..Len(pkgs.updated) :
                pkgs.updated[i][1].tag = "Empty" /\ pkgs.updated[i][2].tag = "Empty"
    THEN Unreachable
    ELSE IF pkgs.updated = <<>> THEN Panic
    ELSE IF pkgs.removed = <<>> THEN Panic
    ELSE [added   |-> Concat([i \in 1..Len(pkgs.added) |-> main_PkgLine(pkgs.added[i])]),
          updated |-> Concat([i \in 1..Len(pkgs.updated) |->
                                 main_UpdateLine(pkgs.updated[i])]),
          removed |-> Concat([i \in 1..Len(pkgs.removed) |->
                                 main_PkgLine(pkgs.removed[i])])]

IsPanic(value) == value = Panic \/ value = Unreachable

\* The first panic the closure meets over the architectures in the order
\* archs, if it meets one
FirstPanic(self, archs) ==
    LET at == {i \in 1..Len(archs) : IsPanic(main_Lists(self.pkg_data[archs[i]]))}
    IN  IF at = {} THEN None ELSE Some(main_Lists(self.pkg_data[archs[Min(at)]]))

\* The format! of the arch section, all systems
main_ArchSection(arch, lists) ==
    Chars("### ") \o Chars(arch) \o LineFeed
        \o Chars("#### Added\n") \o lists.added \o LineFeed
        \o Chars("#### Updated\n") \o lists.updated \o LineFeed
        \o Chars("#### Removed\n") \o lists.removed \o LineFeed

\* The format! of the only section, one system
main_SingleSection(lists) ==
    Chars("## Pkg Changes\n")
        \o Chars("### Added\n") \o lists.added \o LineFeed
        \o Chars("### Updated\n") \o lists.updated \o LineFeed
        \o Chars("### Removed\n") \o lists.removed \o LineFeed

\* The format! of by_arch_stats for one architecture
main_ArchStats(stats, arch) ==
    Chars("#### ") \o Chars(arch) \o LineFeed
        \o Chars("Added: ") \o NumToString(stats.total_added_by_arch[arch]) \o LineFeed
        \o Chars("Updated: ") \o NumToString(stats.total_updated_by_arch[arch]) \o LineFeed
        \o Chars("Removed: ") \o NumToString(stats.total_removed_by_arch[arch]) \o LineFeed
        \o Chars("Same: ") \o NumToString(stats.total_same_by_arch[arch]) \o LineFeed
        \o Chars("Total: ") \o NumToString(stats.total_pkgs_by_arch[arch]) \o LineFeed
        \o LineFeed

main_Title(prev_hash, next_hash) ==
    Chars("# nix-update-report for ") \o prev_hash \o Arrow \o next_hash \o LineFeed
        \o Chars("Report generated using [") \o <<Backquote>> \o Chars("nix-update-reporter")
        \o <<Backquote>> \o Chars("]().\n")
        \o LineFeed

main_Note ==
    Chars("NOTE: nix-update-report can only get top level packages. Packages like ")
        \o <<Backquote>> \o Chars("nushellPlugins.formats") \o <<Backquote>>
        \o Chars(" will have their top level, in this case ")
        \o <<Backquote>> \o Chars("nushellPlugins") \o <<Backquote>>
        \o Chars(", shown as version ")
        \o <<Backquote>> \o Chars("unknown") \o <<Backquote>> \o Chars(".\n")
        \o LineFeed

\* The five totals both preludes write
main_Totals(stats) ==
    Chars("Total Added: ") \o NumToString(stats.total_added) \o LineFeed
        \o Chars("Total Updated: ") \o NumToString(stats.total_updated) \o LineFeed
        \o Chars("Total Removed: ") \o NumToString(stats.total_removed) \o LineFeed
        \o Chars("Total Same: ") \o NumToString(stats.total_same) \o LineFeed
        \o Chars("Total Pkgs: ") \o NumToString(stats.total_pkgs) \o LineFeed

\* let mut report: the prelude; stats_order is the order in which
\* stats.total_added_by_arch yields its keys
main_Prelude(stats, prev_hash, next_hash, all, stats_order) ==
    IF all
    THEN main_Title(prev_hash, next_hash)
            \o main_Note
            \o Chars("## Stats\n")
            \o Chars("### By Arch\n")
            \o Concat([i \in 1..Len(stats_order) |-> main_ArchStats(stats, stats_order[i])])
            \o Chars("### Totals\n")
            \o main_Totals(stats)
            \o Chars("Total Unique Pkgs: ") \o NumToString(stats.total_unique_pkgs)
            \o LineFeed
            \o Chars("Total Removed Archs: ") \o NumToString(stats.total_removed_archs)
            \o LineFeed
            \o Chars("Total Added Archs: ") \o NumToString(stats.total_added_archs)
            \o LineFeed
            \o Chars("Total Archs: ") \o NumToString(stats.total_archs) \o LineFeed
            \o LineFeed
    ELSE main_Title(prev_hash, next_hash)
            \o Chars("## Stats\n")
            \o main_Totals(stats)
            \o LineFeed

\* genrate_report: the String it returns, or the panic it stops with.
\* ord.stats is the order of the keys of stats.total_added_by_arch and
\* ord.pkg_data the order of compare_data.pkg_data.  With all, the closure
\* runs over every architecture; without, .next() runs it over the first
\* one only.
genrate_report(compare_data, prev_hash, next_hash, all, ord) ==
    LET stats == generate_stats(compare_data)
        archs == IF all THEN ord.pkg_data ELSE SubSeq(ord.pkg_data, 1, 1)
    IN  IF stats = Panic THEN Panic
        ELSE IF IsSome(FirstPanic(compare_data, archs))
        THEN Unwrap(FirstPanic(compare_data, archs))
        ELSE IF all
        THEN main_Prelude(stats, prev_hash, next_hash, all, ord.stats)
                \o Chars("## Pkg Changes\n")
                \o Concat([i \in 1..Len(archs) |->
                              main_ArchSection(archs[i],
                                               main_Lists(compare_data.pkg_data[archs[i]]))])
        ELSE main_Prelude(stats, prev_hash, next_hash, all, ord.stats)
                \o main_SingleSection(main_Lists(compare_data.pkg_data[archs[1]]))

\* ------------------------------------------------------------------- inputs

\* A raw entry of the flake json: its "name" and its "description" (None
\* when the json has none).
PkgValue(name, description) == [name |-> Chars(name), description |-> description]

PkgValues ==
    {PkgValue("foo-1.0.0", Some(Chars("A"))),
     PkgValue("foo-1.1.0", Some(Chars("A"))),
     PkgValue("foo", None),
     PkgValue("bar-2.0", Some(Chars("")))}

\* The sequences of at most n elements of S
RECURSIVE SeqsUpTo(_, _)
SeqsUpTo(S, n) ==
    IF n = 0 THEN {<<>>}
    ELSE SeqsUpTo(S, n - 1)
            \cup {Append(q, x) : q \in {r \in SeqsUpTo(S, n - 1) : Len(r) = n - 1}, x \in S}

Linux == "x86_64-linux"
Darwin == "aarch64-darwin"

\* The json objects of the two architectures: of Linux, up to MaxPkgs raw
\* entries; of Darwin, "{}" or one entry.
LinuxPkgs == SeqsUpTo(PkgValues, MaxPkgs)
DarwinPkgs == {<<>>, <<PkgValue("bar-2.0", None)>>}

\* The "packages" outputs: each architecture is absent or is one of its
\* json objects.
FlakeJsons ==
    {EmptyMap}
        \cup {(Linux :> l) : l \in LinuxPkgs}
        \cup {(Darwin :> d) : d \in DarwinPkgs}
        \cup {(Linux :> l) @@ (Darwin :> d) : l \in LinuxPkgs, d \in DarwinPkgs}

\* The full names and the descriptions PkgCompareData::new is tried on
FullNames ==
    {Chars("foo-1.0.0"), Chars("foo-1.1.0"), Chars("foo"), Chars("bar-2.0"),
     Chars("bar"), Chars("foo-1.0rc1"), Chars("foo-unstable-2024-01-01"),
     Chars("foo-1.0-unstable-2024-01-01"), Chars("foo-1.0_x")}

Descriptions == {None, Some(Chars("A")), Some(Chars("B"))}

\* The packages either constructor builds from them
Packages ==
    {Package_new(n, d) : n \in FullNames, d \in Descriptions}
        \cup {packages_Package_new(n, d) : n \in FullNames, d \in Descriptions}

\* The version substrings PkgVersion::new is tried on: numbers, then an
\* extra part, then an ending
VersionNumbers ==
    {Chars(""), Chars("1"), Chars("1.0.0"), Chars("1.1.0"), Chars("2.0"), Chars("007"),
     Chars("65535"), Chars("65536"), Chars("1.70000"), Chars("20240101")}

VersionExtras == {Chars(""), Chars("rc1"), Chars("unstable")}

VersionEndings ==
    {Chars(""), Chars("-"), Chars("_x"),
     Chars("-unstable-2024-01-01"), Chars("unstable-2024-01-01"),
     Chars("-unstable-2024-02-29"), Chars("-unstable-2023-02-29"),
     Chars("-unstable-2024-13-01"), Chars("-unstable-2024-04-31"),
     Chars("-unstable-2024-01-011")}

VersionStrs ==
    {n \o x \o e : n \in VersionNumbers, x \in VersionExtras, e \in VersionEndings}

\* The commit messages NixpkgsCommit::new is tried on one at a time: a tag,
\* a name, a separator, an action
CommitTags == {Chars(""), Chars("[staging] "), Chars("[a] b] ")}
CommitNames == {Chars("hello"), Chars("a:b")}
CommitSeparators == {Chars(": "), Chars(":")}
CommitActions ==
    {Chars("init"), Chars("drop"), Chars("1.0 -> 1.1"), Chars("initial"),
     Chars("dropbear -> 2"), Chars("1.0 ->1.1"), Chars("x"), Chars("1 -> 2 (x)")}

CommitMessages ==
    {t \o n \o s \o a : t \in CommitTags, n \in CommitNames, s \in CommitSeparators,
                        a \in CommitActions}
        \cup {Chars("random text"), Chars("a b: init"), Chars("[x]: init")}

\* The commit messages the lists of several commits are made of
ListedMessages ==
    {Chars("hello: 1.0 -> 1.1"), Chars("[staging] hello: 1.0 -> 1.1"),
     Chars("abc: 2 -> 3"), Chars("a.b: 1 -> 2"), Chars("hello: init"),
     Chars("abc: init"), Chars("hello: drop"), Chars("random text")}

CommitLists ==
    SeqsUpTo(ListedMessages, MaxCommits) \cup {<<m>> : m \in CommitMessages}

Hashes == {Chars("a1"), Chars("b2")}

\* -------------------------------------------------------------------- state

VARIABLES
    old_json,         \* the flake json of the old snapshot
    new_json,         \* the flake json of the new snapshot
    old,              \* FlakePkgs::new(old_json), once built
    new,              \* FlakePkgs::new(new_json), once built
    compare_data,     \* FlakePkgsCompareData::new(old, new), once computed
    pc,               \* the step of the run
    old_pkg,          \* the first argument of PkgCompareData::new
    new_pkg,          \* its second argument
    pkg_compare,      \* its result, once computed
    version_str,      \* the argument of PkgVersion::new
    version,          \* the result of flakes.rs, once computed
    packages_version, \* the result of packages.rs, once computed
    rendered,         \* version.to_string() of flakes.rs, once computed
    reparsed,         \* PkgVersion::new(&rendered) of flakes.rs, once computed
    packages_rendered, \* packages_version.to_string() of packages.rs
    packages_reparsed, \* PkgVersion::new(&packages_rendered) of packages.rs
    full_name,        \* the first argument of Package::new
    description,      \* its second argument
    package,          \* the result of flakes.rs, once computed
    packages_package, \* the result of packages.rs, once computed
    commits,          \* the commit messages, the argument of Nixpkgs::new
    nixpkgs,          \* Nixpkgs::new(&commits), once built
    report,           \* nixpkgs.generate_report(..), once generated
    title,            \* the title argument of FlakePkgsCompareData::generate_report
    flake_report,     \* compare_data.generate_report(&title), once generated
    prev_json,        \* the "legacyPackages" of the previous hash (main.rs)
    next_json,        \* the "legacyPackages" of the next hash
    all,              \* args.all
    prev_packages,    \* Packages::new(&args.previous, args.all), once built
    next_packages,    \* Packages::new(&args.next, args.all), once built
    packages_compare_data, \* prev_packages.compare(&next_packages), once computed
    main_report       \* genrate_report(..) of main.rs, once generated

flakeVars == <<old_json, new_json, old, new, compare_data, pc>>
compareVars == <<old_pkg, new_pkg, pkg_compare>>
versionVars == <<version_str, version, packages_version, rendered, reparsed,
                 packages_rendered, packages_reparsed>>
packageVars == <<full_name, description, package, packages_package>>
nixpkgsVars == <<commits, nixpkgs, report>>
reportVars == <<title, flake_report>>
mainVars == <<prev_json, next_json, all, prev_packages, next_packages,
              packages_compare_data, main_report>>
vars == <<flakeVars, compareVars, versionVars, packageVars, nixpkgsVars, reportVars,
          mainVars>>

NotYet == [tag |-> "NotYet"]

FlakeIdle ==
    /\ old_json = EmptyMap
    /\ new_json = EmptyMap
    /\ old = NotYet
    /\ new = NotYet
    /\ compare_data = NotYet

CompareIdle == old_pkg = NotYet /\ new_pkg = NotYet /\ pkg_compare = None

VersionIdle ==
    /\ version_str = <<>>
    /\ version = NotYet
    /\ packages_version = NotYet
    /\ rendered = None
    /\ reparsed = NotYet
    /\ packages_rendered = None
    /\ packages_reparsed = NotYet

NixpkgsIdle == commits = <<>> /\ nixpkgs = NotYet /\ report = None

ReportIdle == title = None /\ flake_report = None

MainIdle ==
    /\ prev_json = EmptyMap
    /\ next_json = EmptyMap
    /\ all = FALSE
    /\ prev_packages = NotYet
    /\ next_packages = NotYet
    /\ packages_compare_data = NotYet
    /\ main_report = None

PackageIdle ==
    /\ full_name = <<>>
    /\ description = None
    /\ package = NotYet
    /\ packages_package = NotYet

\* ------------------------------------------------- the run of the flake diff

Init ==
    /\ ReportIdle
    /\ MainIdle
    /\ old_json \in FlakeJsons
    /\ new_json \in FlakeJsons
    /\ old = NotYet
    /\ new = NotYet
    /\ compare_data = NotYet
    /\ pc = "start"
    /\ CompareIdle
    /\ VersionIdle
    /\ PackageIdle
    /\ NixpkgsIdle

\* let old = FlakePkgs::new(&old_json)
NewOld ==
    /\ pc = "start"
    /\ old' = FlakePkgs_new(old_json)
    /\ pc' = IF old' = Panic THEN "panicked" ELSE "old_built"
    /\ UNCHANGED <<reportVars, mainVars, old_json, new_json, new, compare_data, compareVars, versionVars,
                   packageVars, nixpkgsVars>>

\* let new = FlakePkgs::new(&new_json)
NewNew ==
    /\ pc = "old_built"
    /\ new' = FlakePkgs_new(new_json)
    /\ pc' = IF new' = Panic THEN "panicked" ELSE "new_built"
    /\ UNCHANGED <<reportVars, mainVars, old_json, new_json, old, compare_data, compareVars, versionVars,
                   packageVars, nixpkgsVars>>

\* let compare_data = FlakePkgsCompareData::new(&old, &new)
Compare ==
    /\ pc = "new_built"
    /\ \E ord \in IterationOrders(old, new) :
          compare_data' = FlakePkgsCompareData_new(old, new, ord)
    /\ pc' = IF compare_data' = Panic THEN "panicked" ELSE "compared"
    /\ UNCHANGED <<reportVars, mainVars, old_json, new_json, old, new, compareVars, versionVars,
                   packageVars, nixpkgsVars>>

Next == NewOld \/ NewNew \/ Compare

Spec == Init /\ [][Next]_vars

\* ------------------------------------------- PkgCompareData::new on its own

InitCompare ==
    /\ ReportIdle
    /\ MainIdle
    /\ FlakeIdle
    /\ VersionIdle
    /\ PackageIdle
    /\ NixpkgsIdle
    /\ old_pkg \in Packages
    /\ new_pkg \in Packages
    /\ pkg_compare = None
    /\ pc = "start"

\* PkgCompareData::new(&old_pkg, &new_pkg)
ComparePkgs ==
    /\ pc = "start"
    /\ pkg_compare' = PkgCompareData_new(old_pkg, new_pkg)
    /\ pc' = "pkgs_compared"
    /\ UNCHANGED <<reportVars, mainVars, old_json, new_json, old, new, compare_data, old_pkg, new_pkg,
                   versionVars, packageVars, nixpkgsVars>>

NextCompare == ComparePkgs

SpecCompare == InitCompare /\ [][NextCompare]_vars

\* ----------------------------------------------- PkgVersion::new on its own

InitVersion ==
    /\ ReportIdle
    /\ MainIdle
    /\ FlakeIdle
    /\ CompareIdle
    /\ PackageIdle
    /\ NixpkgsIdle
    /\ version_str \in VersionStrs
    /\ version = NotYet
    /\ packages_version = NotYet
    /\ rendered = None
    /\ reparsed = NotYet
    /\ packages_rendered = None
    /\ packages_reparsed = NotYet
    /\ pc = "start"

\* PkgVersion::new(&version_str) of flakes.rs
NewVersion ==
    /\ version = NotYet
    /\ version' = PkgVersion_new(version_str)
    /\ UNCHANGED <<reportVars, mainVars, flakeVars, compareVars, packageVars, nixpkgsVars, version_str, packages_version,
                   rendered, reparsed, packages_rendered, packages_reparsed>>

\* PkgVersion::new(&version_str) of packages.rs
packages_NewVersion ==
    /\ packages_version = NotYet
    /\ packages_version' = packages_PkgVersion_new(version_str)
    /\ UNCHANGED <<reportVars, mainVars, flakeVars, compareVars, packageVars, nixpkgsVars, version_str, version,
                   rendered, reparsed, packages_rendered, packages_reparsed>>

\* version.to_string() of flakes.rs, on a version that was built
Render ==
    /\ version \notin {NotYet, Panic}
    /\ rendered = None
    /\ rendered' = Some(PkgVersion_to_string(version))
    /\ UNCHANGED <<reportVars, mainVars, flakeVars, compareVars, packageVars, nixpkgsVars, version_str, version,
                   packages_version, reparsed, packages_rendered, packages_reparsed>>

\* PkgVersion::new(&rendered) of flakes.rs
Reparse ==
    /\ IsSome(rendered)
    /\ reparsed = NotYet
    /\ reparsed' = PkgVersion_new(Unwrap(rendered))
    /\ UNCHANGED <<reportVars, mainVars, flakeVars, compareVars, packageVars, nixpkgsVars, version_str, version,
                   packages_version, rendered, packages_rendered, packages_reparsed>>

\* packages_version.to_string() of packages.rs
packages_Render ==
    /\ packages_version \notin {NotYet, Panic}
    /\ packages_rendered = None
    /\ packages_rendered' = Some(PkgVersion_to_string(packages_version))
    /\ UNCHANGED <<reportVars, mainVars, flakeVars, compareVars, packageVars, nixpkgsVars, version_str, version,
                   packages_version, rendered, reparsed, packages_reparsed>>

\* PkgVersion::new(&packages_rendered) of packages.rs
packages_Reparse ==
    /\ IsSome(packages_rendered)
    /\ packages_reparsed = NotYet
    /\ packages_reparsed' = packages_PkgVersion_new(Unwrap(packages_rendered))
    /\ UNCHANGED <<reportVars, mainVars, flakeVars, compareVars, packageVars, nixpkgsVars, version_str, version,
                   packages_version, rendered, reparsed, packages_rendered>>

NextVersion ==
    \/ NewVersion
    \/ packages_NewVersion
    \/ Render
    \/ Reparse
    \/ packages_Render
    \/ packages_Reparse

SpecVersion == InitVersion /\ [][NextVersion]_vars

\* -------------------------------------------------- Package::new on its own

\* The base names and the digit groups the full names "<name>-<digits>" are
\* made of, and full names of other forms
BaseNames ==
    {Chars("foo"), Chars("foo-bar"), Chars("foo_2"), Chars("py3"),
     Chars("foo-unstable-x"), Chars("foo-2")}

DigitGroups ==
    {Chars("1"), Chars("1.0.0"), Chars("2.0"), Chars("007"), Chars("65535"),
     Chars("65536"), Chars("1.70000")}

PackageFullNames ==
    {n \o <<"-">> \o d : n \in BaseNames, d \in DigitGroups} \cup FullNames

PackageDescriptions == {None, Some(Chars("")), Some(Chars("A"))}

InitPackage ==
    /\ ReportIdle
    /\ MainIdle
    /\ FlakeIdle
    /\ CompareIdle
    /\ VersionIdle
    /\ NixpkgsIdle
    /\ full_name \in PackageFullNames
    /\ description \in PackageDescriptions
    /\ package = NotYet
    /\ packages_package = NotYet
    /\ pc = "start"

\* Package::new of flakes.rs, a private function: its one call is in
\* FlakePkgs::new, on pkg_value["name"] and the description made of
\* pkg_value["description"]
NewPackage ==
    /\ package = NotYet
    /\ package' = PkgOf([name |-> full_name, description |-> description])
    /\ UNCHANGED <<reportVars, mainVars, flakeVars, compareVars, versionVars, nixpkgsVars, full_name, description,
                   packages_package>>

\* Package::new(&full_name, &description) of packages.rs, a public function
packages_NewPackage ==
    /\ packages_package = NotYet
    /\ packages_package' = packages_Package_new(full_name, description)
    /\ UNCHANGED <<reportVars, mainVars, flakeVars, compareVars, versionVars, nixpkgsVars, full_name, description,
                   package>>

NextPackage == NewPackage \/ packages_NewPackage

SpecPackage == InitPackage /\ [][NextPackage]_vars

\* ------------------------------------------------- the run of the nixpkgs report

InitNixpkgs ==
    /\ ReportIdle
    /\ MainIdle
    /\ FlakeIdle
    /\ CompareIdle
    /\ VersionIdle
    /\ PackageIdle
    /\ commits \in CommitLists
    /\ nixpkgs = NotYet
    /\ report = None
    /\ pc = "nixpkgs"

\* let nixpkgs = Nixpkgs::new(&commits)
NewNixpkgs ==
    /\ pc = "nixpkgs"
    /\ nixpkgs = NotYet
    /\ nixpkgs' = Nixpkgs_new(commits)
    /\ UNCHANGED <<reportVars, mainVars, flakeVars, compareVars, versionVars, packageVars, commits, report>>

\* nixpkgs.generate_report(&base_hash, &head_hash)
GenerateReport ==
    /\ pc = "nixpkgs"
    /\ nixpkgs # NotYet
    /\ report = None
    /\ \E base_hash \in Hashes, head_hash \in Hashes, ord \in ReportOrders(nixpkgs) :
          report' = Some(Nixpkgs_generate_report(nixpkgs, base_hash, head_hash, ord))
    /\ UNCHANGED <<reportVars, mainVars, flakeVars, compareVars, versionVars, packageVars, commits, nixpkgs>>

NextNixpkgs == NewNixpkgs \/ GenerateReport

SpecNixpkgs == InitNixpkgs /\ [][NextNixpkgs]_vars

\* ----------------------------------------------- the run of the reports

\* The raw entries of the flake jsons a report is generated for
Foo100 == PkgValue("foo-1.0.0", Some(Chars("A")))
Foo110 == PkgValue("foo-1.1.0", Some(Chars("A")))
Bar20 == PkgValue("bar-2.0", None)
Bar21 == PkgValue("bar-2.1", None)
Baz == PkgValue("baz", None)

ReportLinuxPkgs ==
    {<<>>, <<Foo100>>, <<Foo110>>, <<Bar20>>, <<Baz>>, <<Foo100, Bar20>>,
     <<Foo110, Bar21>>, <<Foo110, Bar20>>, <<Foo100, Baz>>}

ReportDarwinPkgs == {<<>>, <<Bar20>>, <<Bar21>>}

ReportJsons ==
    {EmptyMap}
        \cup {(Linux :> l) : l \in ReportLinuxPkgs}
        \cup {(Darwin :> d) : d \in ReportDarwinPkgs}
        \cup {(Linux :> l) @@ (Darwin :> d) : l \in ReportLinuxPkgs, d \in ReportDarwinPkgs}

Titles == {None, Some(Chars("my flake"))}

\* One of the reports is asked for: the one of a flake diff, the one of a
\* list of commits, or the one of main.rs
InitFlakeReport ==
    /\ ReportIdle
    /\ MainIdle
    /\ old_json \in ReportJsons
    /\ new_json \in ReportJsons
    /\ old = NotYet
    /\ new = NotYet
    /\ compare_data = NotYet
    /\ pc = "start"
    /\ CompareIdle
    /\ VersionIdle
    /\ PackageIdle
    /\ NixpkgsIdle

\* A json value of an attribute of main.rs: its "name" (None when null)
\* and its "description" (None when it is not a string)
MainValue(name, desc) == [name |-> name, description |-> desc]

MainFoo100 == MainValue(Some(Chars("foo-1.0.0")), Some(Chars("A")))
MainFoo110 == MainValue(Some(Chars("foo-1.1.0")), Some(Chars("A")))
MainBar20 == MainValue(Some(Chars("bar-2.0")), Some(Chars("")))
MainBaz == MainValue(Some(Chars("baz")), Some(Chars("B")))
MainNull == MainValue(None, None)
MainNoDescription == MainValue(Some(Chars("bar-2.1")), None)

\* The json objects of the two architectures under "legacyPackages", each
\* from attribute keys to values
MainLinuxPkgs ==
    {EmptyMap,
     ("foo" :> MainFoo100),
     ("foo" :> MainFoo110),
     ("foo" :> MainNull),
     ("foo" :> MainFoo100) @@ ("bar" :> MainBar20),
     ("foo" :> MainFoo110) @@ ("baz" :> MainBaz),
     ("foo" :> MainFoo100) @@ ("bar" :> MainNull),
     ("foo" :> MainNull) @@ ("bar" :> MainNull)}

MainDarwinPkgs == {EmptyMap, ("bar" :> MainBar20), ("bar" :> MainNoDescription)}

\* The "legacyPackages" objects: with --all-systems every architecture may
\* have packages, without it only the one of the machine has
MainJsons(all_systems) ==
    LET darwin == IF all_systems THEN MainDarwinPkgs ELSE {EmptyMap}
    IN  {EmptyMap}
            \cup {(Linux :> l) : l \in MainLinuxPkgs}
            \cup {(Darwin :> d) : d \in darwin}
            \cup {(Linux :> l) @@ (Darwin :> d) : l \in MainLinuxPkgs, d \in darwin}

\* The run of main.rs
InitMain ==
    /\ FlakeIdle
    /\ CompareIdle
    /\ VersionIdle
    /\ PackageIdle
    /\ NixpkgsIdle
    /\ ReportIdle
    /\ all \in BOOLEAN
    /\ prev_json \in MainJsons(all)
    /\ next_json \in MainJsons(all)
    /\ prev_packages = NotYet
    /\ next_packages = NotYet
    /\ packages_compare_data = NotYet
    /\ main_report = None
    /\ pc = "main"

\* The step after a call of Packages::new
AfterNew(packages, built) ==
    IF packages = Panic THEN "panicked" ELSE IF packages = Exit THEN "exited" ELSE built

\* let prev_packages = Packages::new(&args.previous, args.all)
NewPrev ==
    /\ pc = "main"
    /\ prev_packages' = Packages_new(prev_json, all)
    /\ pc' = AfterNew(prev_packages', "prev_built")
    /\ UNCHANGED <<reportVars, old_json, new_json, old, new, compare_data, compareVars,
                   versionVars, packageVars, nixpkgsVars, prev_json, next_json, all,
                   next_packages, packages_compare_data, main_report>>

\* let next_packages = Packages::new(&args.next, args.all)
NewNext ==
    /\ pc = "prev_built"
    /\ next_packages' = Packages_new(next_json, all)
    /\ pc' = AfterNew(next_packages', "next_built")
    /\ UNCHANGED <<reportVars, old_json, new_json, old, new, compare_data, compareVars,
                   versionVars, packageVars, nixpkgsVars, prev_json, next_json, all,
                   prev_packages, packages_compare_data, main_report>>

\* let compare_data = prev_packages.compare(&next_packages)
ComparePackages ==
    /\ pc = "next_built"
    /\ \E ord \in main_IterationOrders(prev_packages, next_packages) :
          packages_compare_data' = PackagesCompareData_new(prev_packages, next_packages, ord)
    /\ pc' = "packages_compared"
    /\ UNCHANGED <<reportVars, old_json, new_json, old, new, compare_data, compareVars,
                   versionVars, packageVars, nixpkgsVars, prev_json, next_json, all,
                   prev_packages, next_packages, main_report>>

\* genrate_report(&compare_data, &args.previous, &args.next, args.all)
GenrateReport ==
    /\ pc = "packages_compared"
    /\ \E prev_hash \in Hashes, next_hash \in Hashes,
          ord \in [stats : Orders(DOMAIN packages_compare_data.pkg_data),
                   pkg_data : Orders(DOMAIN packages_compare_data.pkg_data)] :
          main_report' =
              Some(genrate_report(packages_compare_data, prev_hash, next_hash, all, ord))
    /\ pc' = IF IsPanic(Unwrap(main_report')) THEN "panicked" ELSE "written"
    /\ UNCHANGED <<reportVars, old_json, new_json, old, new, compare_data, compareVars,
                   versionVars, packageVars, nixpkgsVars, prev_json, next_json, all,
                   prev_packages, next_packages, packages_compare_data>>

InitReport == InitFlakeReport \/ InitNixpkgs \/ InitMain

\* compare_data.generate_report(&title)
FlakeGenerateReport ==
    /\ pc = "compared"
    /\ \E t \in Titles, pkg_order \in Orders(DOMAIN compare_data.pkg_data) :
          /\ title' = t
          /\ flake_report' =
                Some(FlakePkgsCompareData_generate_report(compare_data, t, pkg_order))
    /\ pc' = IF flake_report' = Some(Panic) THEN "panicked" ELSE "reported"
    /\ UNCHANGED <<mainVars, old_json, new_json, old, new, compare_data, compareVars,
                   versionVars, packageVars, nixpkgsVars>>

NextReport ==
    \/ NewOld
    \/ NewNew
    \/ Compare
    \/ FlakeGenerateReport
    \/ NewNixpkgs
    \/ GenerateReport
    \/ NewPrev
    \/ NewNext
    \/ ComparePackages
    \/ GenrateReport

SpecReport == InitReport /\ [][NextReport]_vars

\* ------------------------------------------------------------------- claims

NoDuplicates(seq) == Cardinality(Range(seq)) = Len(seq)

\* The entries of a list of packages that stand for the identity key name
EntriesOf(pkgs, name) == {i \in 1..Len(pkgs) : get_name(pkgs[i]) = name}
\* The entries of an updated list that stand for the identity key name
UpdatesOf(updated, name) == {i \in 1..Len(updated) : get_name(updated[i][1]) = name}

Foo100A == PkgValue("foo-1.0.0", Some(Chars("A")))
Bar20Empty == PkgValue("bar-2.0", Some(Chars("")))

\* C1: the diff of a PackageSet with itself has empty added, updated and
\* removed lists in every group, no added and no removed architecture, and
\* for every group of the set a total_pkgs equal to the size of the group.
C1_SelfDiffIsEmpty ==
    (pc = "compared" /\ old = new) =>
        /\ compare_data.added_archs = <<>>
        /\ compare_data.removed_archs = <<>>
        /\ DOMAIN compare_data.pkg_data = DOMAIN old.map
        /\ \A arch \in DOMAIN old.map :
              /\ compare_data.pkg_data[arch].added = <<>>
              /\ compare_data.pkg_data[arch].updated = <<>>
              /\ compare_data.pkg_data[arch].removed = <<>>
              /\ compare_data.pkg_data[arch].total_pkgs
                    = Cardinality(DOMAIN old.map[arch])

C1_Witness ==
    /\ pc = "compared"
    /\ old = new
    /\ DOMAIN old.map = {Linux, Darwin}
    /\ Cardinality(DOMAIN old.map[Linux]) = 2

\* C2: the diff partitions the group labels: removed_archs is the set of
\* labels of old that new lacks, added_archs the set of labels of new that
\* old lacks, and the keys of pkg_data are the labels both hold; a group
\* only old holds is in removed_archs and has no entry in pkg_data.
C2_ArchsPartitioned ==
    pc = "compared" =>
        /\ Range(compare_data.removed_archs) = (DOMAIN old.map) \ (DOMAIN new.map)
        /\ NoDuplicates(compare_data.removed_archs)
        /\ Range(compare_data.added_archs) = (DOMAIN new.map) \ (DOMAIN old.map)
        /\ NoDuplicates(compare_data.added_archs)
        /\ DOMAIN compare_data.pkg_data = (DOMAIN old.map) \cap (DOMAIN new.map)
        /\ \A arch \in (DOMAIN old.map) \ (DOMAIN new.map) :
              /\ arch \in Range(compare_data.removed_archs)
              /\ arch \notin DOMAIN compare_data.pkg_data

C2_Witness ==
    /\ pc = "compared"
    /\ DOMAIN old.map = {Linux, Darwin}
    /\ DOMAIN new.map = {Linux}
    /\ compare_data.removed_archs = <<Darwin>>
    /\ DOMAIN compare_data.pkg_data = {Linux}

\* C3: in a group both snapshots hold, a key only the old group holds has
\* exactly one Removed entry, the old package; a key only the new group
\* holds has exactly one Added entry, the new package; a key both hold has
\* an Updated entry iff the comparison returns Changed and no entry when it
\* returns Unchanged.  (The scenario: old "linux" = {foo-1.0.0: "A"}, new
\* "linux" = {foo-1.0.0: "A", bar-2.0: ""} gives added = [bar 2.0], nothing
\* updated, nothing removed, total_pkgs = 2.)
C3_KeysClassified ==
    pc = "compared" =>
        /\ \A arch \in DOMAIN compare_data.pkg_data :
              LET data == compare_data.pkg_data[arch]
                  old_pkgs == old.map[arch]
                  new_pkgs == new.map[arch]
              IN  /\ \A name \in (DOMAIN old_pkgs) \ (DOMAIN new_pkgs) :
                        /\ Cardinality(EntriesOf(data.removed, name)) = 1
                        /\ \A i \in EntriesOf(data.removed, name) :
                              data.removed[i] = old_pkgs[name]
                        /\ EntriesOf(data.added, name) = {}
                        /\ UpdatesOf(data.updated, name) = {}
                  /\ \A name \in (DOMAIN new_pkgs) \ (DOMAIN old_pkgs) :
                        /\ Cardinality(EntriesOf(data.added, name)) = 1
                        /\ \A i \in EntriesOf(data.added, name) :
                              data.added[i] = new_pkgs[name]
                        /\ EntriesOf(data.removed, name) = {}
                        /\ UpdatesOf(data.updated, name) = {}
                  /\ \A name \in (DOMAIN old_pkgs) \cap (DOMAIN new_pkgs) :
                        LET compared == PkgCompareData_new(old_pkgs[name], new_pkgs[name])
                        IN  /\ IsSome(compared)
                            /\ Unwrap(compared).tag = "Changed"
                                  <=> UpdatesOf(data.updated, name) # {}
                            /\ Unwrap(compared).tag = "Unchanged"
                                  => UpdatesOf(data.updated, name) = {}
                            /\ \A i \in UpdatesOf(data.updated, name) :
                                  data.updated[i][2] = Unwrap(compared)
                            /\ Cardinality(UpdatesOf(data.updated, name)) <= 1
                            /\ EntriesOf(data.added, name) = {}
                            /\ EntriesOf(data.removed, name) = {}
        /\ (old_json = (Linux :> <<Foo100A>>) /\ new_json = (Linux :> <<Foo100A, Bar20Empty>>))
              => compare_data.pkg_data[Linux]
                    = [added |-> <<[tag |-> "Parsed", name |-> Chars("bar"),
                                    version |-> [tag |-> "Parsed", numbers |-> <<2, 0>>,
                                                 extra |-> None, unstable_date |-> None],
                                    description |-> None]>>,
                       updated |-> <<>>,
                       removed |-> <<>>,
                       total_pkgs |-> 2]

\* A group with an added key and a key whose comparison is Changed
C3_Witness ==
    /\ pc = "compared"
    /\ Linux \in DOMAIN compare_data.pkg_data
    /\ Len(compare_data.pkg_data[Linux].added) = 1
    /\ Len(compare_data.pkg_data[Linux].updated) = 1
    /\ Len(compare_data.pkg_data[Linux].removed) = 0

\* C4: in a group both snapshots hold, total_pkgs is the number of identity
\* keys of the new group; the packages only the old group holds are not
\* counted.
C4_TotalPkgsCountsNew ==
    pc = "compared" =>
        \A arch \in DOMAIN compare_data.pkg_data :
            compare_data.pkg_data[arch].total_pkgs = Cardinality(DOMAIN new.map[arch])

C4_Witness ==
    /\ pc = "compared"
    /\ Linux \in DOMAIN compare_data.pkg_data
    /\ Len(compare_data.pkg_data[Linux].removed) = 1
    /\ Cardinality(DOMAIN old.map[Linux]) = 2
    /\ compare_data.pkg_data[Linux].total_pkgs = 1

\* C5: total_archs is the number of groups of the new snapshot, the number
\* of keys of pkg_data plus the number of added_archs; the groups only old
\* holds are not counted.
C5_TotalArchsCountsNew ==
    pc = "compared" =>
        /\ compare_data.total_archs = Cardinality(DOMAIN new.map)
        /\ compare_data.total_archs
              = Cardinality(DOMAIN compare_data.pkg_data) + Len(compare_data.added_archs)

C5_Witness ==
    /\ pc = "compared"
    /\ compare_data.removed_archs = <<Darwin>>
    /\ DOMAIN compare_data.pkg_data = {Linux}
    /\ compare_data.total_archs = 1

\* C6: comparing two Parsed packages of the same name returns Changed iff
\* the versions or the descriptions differ and Unchanged otherwise; in
\* Changed, version_change tells whether the versions differ and
\* description_change whether the descriptions differ, and the change text
\* holds "<old version> -> <new version>", followed by ", description
\* changed" exactly when the descriptions differ.  (foo-1.0.0 against
\* foo-1.1.0, no descriptions: version_change true, description_change
\* false, a text holding "1.0.0 -> 1.1.0".)
EndsWith(s, t) == Len(t) <= Len(s) /\ StartsWithAt(s, Len(s) - Len(t) + 1, t)

C6_ParsedAgainstParsed ==
    /\ (/\ pc = "pkgs_compared"
        /\ old_pkg.tag = "Parsed"
        /\ new_pkg.tag = "Parsed"
        /\ old_pkg.name = new_pkg.name)
          => LET version_differs == old_pkg.version # new_pkg.version
                 description_differs == old_pkg.description # new_pkg.description
                 versions == PkgVersion_to_string(old_pkg.version) \o Arrow
                                \o PkgVersion_to_string(new_pkg.version)
             IN  /\ IsSome(pkg_compare)
                 /\ Unwrap(pkg_compare).tag \in {"Changed", "Unchanged"}
                 /\ Unwrap(pkg_compare).tag = "Changed"
                       <=> (version_differs \/ description_differs)
                 /\ Unwrap(pkg_compare).tag = "Changed" =>
                       /\ Unwrap(pkg_compare).version_change = Some(version_differs)
                       /\ Unwrap(pkg_compare).description_change
                             = Some(description_differs)
                       /\ Contains(Unwrap(pkg_compare).change_string, versions)
                       /\ IF description_differs
                          THEN EndsWith(Unwrap(pkg_compare).change_string,
                                        versions \o DescriptionChanged)
                          ELSE /\ EndsWith(Unwrap(pkg_compare).change_string, versions)
                               /\ ~Contains(Unwrap(pkg_compare).change_string,
                                            DescriptionChanged)
    /\ (/\ pc = "pkgs_compared"
        /\ old_pkg = Package_new(Chars("foo-1.0.0"), None)
        /\ new_pkg = Package_new(Chars("foo-1.1.0"), None))
          => /\ IsSome(pkg_compare)
             /\ Unwrap(pkg_compare).tag = "Changed"
             /\ Unwrap(pkg_compare).version_change = Some(TRUE)
             /\ Unwrap(pkg_compare).description_change = Some(FALSE)
             /\ Contains(Unwrap(pkg_compare).change_string, Chars("1.0.0 -> 1.1.0"))

\* The same version under two descriptions: only the description changed
C6_Witness ==
    /\ pc = "pkgs_compared"
    /\ old_pkg = Package_new(Chars("foo-1.0.0"), Some(Chars("A")))
    /\ new_pkg = Package_new(Chars("foo-1.0.0"), Some(Chars("B")))
    /\ Unwrap(pkg_compare).version_change = Some(FALSE)
    /\ Unwrap(pkg_compare).description_change = Some(TRUE)

\* C7: comparing a Parsed package with an Unparsable package of the same
\* name, in either direction, returns Changed with version_change and
\* description_change both None and a change text that states the
\* transition to or from "unparsable"; comparing two Unparsable packages
\* of the same name returns Unchanged.
C7_ParsedAgainstUnparsable ==
    (pc = "pkgs_compared" /\ old_pkg.name = new_pkg.name) =>
        /\ (old_pkg.tag = "Parsed" /\ new_pkg.tag = "Unparsable") =>
              /\ IsSome(pkg_compare)
              /\ Unwrap(pkg_compare).tag = "Changed"
              /\ Unwrap(pkg_compare).version_change = None
              /\ Unwrap(pkg_compare).description_change = None
              /\ EndsWith(Unwrap(pkg_compare).change_string, Chars(" -> unparsable"))
        /\ (old_pkg.tag = "Unparsable" /\ new_pkg.tag = "Parsed") =>
              /\ IsSome(pkg_compare)
              /\ Unwrap(pkg_compare).tag = "Changed"
              /\ Unwrap(pkg_compare).version_change = None
              /\ Unwrap(pkg_compare).description_change = None
              /\ Contains(Unwrap(pkg_compare).change_string, Chars(": unparsable -> "))
        /\ (old_pkg.tag = "Unparsable" /\ new_pkg.tag = "Unparsable") =>
              pkg_compare = Some(Unchanged)

C7_Witness ==
    /\ pc = "pkgs_compared"
    /\ old_pkg = Package_new(Chars("foo-1.0.0"), Some(Chars("A")))
    /\ new_pkg = Package_new(Chars("foo"), None)
    /\ new_pkg.tag = "Unparsable"
    /\ IsSome(pkg_compare)

\* C8: for packages of any two variants whose names differ,
\* PkgCompareData::new returns None, never Changed or Unchanged.
C8_NamesDifferGivesNone ==
    (pc = "pkgs_compared" /\ get_name(old_pkg) # get_name(new_pkg)) => pkg_compare = None

C8_Witness ==
    /\ pc = "pkgs_compared"
    /\ old_pkg.tag = "Unparsable"
    /\ new_pkg.tag = "Unparsable"
    /\ get_name(old_pkg) # get_name(new_pkg)
    /\ pkg_compare = None

\* C9: the diff never fails on the PackageSets FlakePkgs::new builds: in
\* every group each key is get_name() of the package under it, so for every
\* key the old and the new group share the comparison is Some, and the
\* unwrap in FlakePkgsCompareData::new never meets None.
KeysAreNames(flake_pkgs) ==
    \A arch \in DOMAIN flake_pkgs.map : \A name \in DOMAIN flake_pkgs.map[arch] :
        get_name(flake_pkgs.map[arch][name]) = name

C9_DiffNeverFails ==
    /\ compare_data # Panic
    /\ pc \in {"old_built", "new_built", "compared"} => KeysAreNames(old)
    /\ pc \in {"new_built", "compared"} =>
          /\ KeysAreNames(new)
          /\ \A arch \in comparable_archs(old, new) :
                \A name \in (DOMAIN old.map[arch]) \cap (DOMAIN new.map[arch]) :
                    IsSome(PkgCompareData_new(old.map[arch][name], new.map[arch][name]))

\* A key the two groups share, Parsed in the old one and Unparsable in the new
C9_Witness ==
    /\ pc = "compared"
    /\ Linux \in comparable_archs(old, new)
    /\ \E name \in (DOMAIN old.map[Linux]) \cap (DOMAIN new.map[Linux]) :
          /\ old.map[Linux][name].tag = "Parsed"
          /\ new.map[Linux][name].tag = "Unparsable"

\* C10: the version parser never raises an error to its caller:
\* PkgVersion::new returns a value for every version substring, and when a
\* numeric run overflows a component or the text at the date is no valid
\* date the result is Unparsable, holding the input.
CannotBeParsed(captures) ==
    /\ IsSome(captures)
    /\ \/ \E i \in 1..Len(SplitDots(Unwrap(captures).version)) :
             ~IsSome(ParseU16(SplitDots(Unwrap(captures).version)[i]))
       \/ /\ IsSome(Unwrap(captures).unstable_date)
          /\ ~IsSome(Date_parse(Unwrap(Unwrap(captures).unstable_date)))

C10_VersionParserNeverFails ==
    /\ version # NotYet =>
          /\ version # Panic
          /\ CannotBeParsed(VersionCaptures(version_str))
                => version = [tag |-> "Unparsable", str |-> version_str]
    /\ packages_version # NotYet =>
          /\ packages_version # Panic
          /\ CannotBeParsed(packages_VersionCaptures(version_str))
                => packages_version = [tag |-> "Unparsable", str |-> version_str]

\* C11: PkgVersion::new returns a Parsed version only if the whole version
\* substring matches the grammar (dot-separated digit groups, then an
\* optional alphanumeric suffix, then an optional "-unstable-YYYY-MM-DD");
\* for every other substring, one with trailing characters after a
\* grammatical prefix included, it returns Unparsable holding the string.

\* s[1..e] is one or more digit groups separated by single dots
IsDigitGroups(s, e) ==
    /\ e >= 1
    /\ e <= Len(s)
    /\ s[1] \in Digit
    /\ s[e] \in Digit
    /\ \A i \in 1..e : s[i] \in Digit \/ s[i] = "."
    /\ \A i \in 1..(e - 1) : ~(s[i] = "." /\ s[i + 1] = ".")

\* The whole of s is written by the grammar of the structured version.  The
\* "-" before "unstable-" is read as optional, as both regexes have it, so
\* that only text the grammar cannot write in either reading counts as a
\* mismatch.
MatchesStructuredGrammar(s) ==
    \E ve \in 1..Len(s) : \E xe \in ve..Len(s) : \E d \in {xe, xe + 1} :
        /\ IsDigitGroups(s, ve)
        /\ \A i \in (ve + 1)..xe : s[i] \in Alnum
        /\ d = xe + 1 => At(s, d) = "-"
        /\ \/ d = Len(s)
           \/ /\ StartsWithAt(s, d + 1, UnstableDash)
              /\ IsDatePattern(s, d + 10)
              /\ d + 19 = Len(s)

C11_ParsedOnlyOnWholeMatch ==
    /\ version # NotYet =>
          /\ version.tag = "Parsed" => MatchesStructuredGrammar(version_str)
          /\ ~MatchesStructuredGrammar(version_str)
                => version = [tag |-> "Unparsable", str |-> version_str]
    /\ packages_version # NotYet =>
          /\ packages_version.tag = "Parsed" => MatchesStructuredGrammar(version_str)
          /\ ~MatchesStructuredGrammar(version_str)
                => packages_version = [tag |-> "Unparsable", str |-> version_str]

\* C12: for every full name "<name>-<digits...>", Package::new yields a
\* Parsed package whose base name is <name> and whose version is Parsed with
\* the numbers of <digits...> split on "."; the base name is the shortest
\* prefix whose remainder after "-" begins with a digit or with "unstable-".

\* The number a run of digits writes (of any size)
RECURSIVE DecimalValue(_)
DecimalValue(run) ==
    IF run = <<>> THEN 0
    ELSE 10 * DecimalValue(SubSeq(run, 1, Len(run) - 1)) + DigitVal(run[Len(run)])

\* A version can follow the "-" at position k: the remainder begins with a
\* digit or with "unstable-" (read, as the regexes have it, with a digit
\* after it).
SplitsAt(s, k) ==
    /\ At(s, k) = "-"
    /\ \/ At(s, k + 1) \in Digit
       \/ StartsWithAt(s, k + 1, UnstableDash) /\ At(s, k + 10) \in Digit

\* s is "<name>-<digits...>", <name> being the shortest prefix a version
\* follows: the split is at k
IsNameDashDigits(s, k) ==
    /\ SplitsAt(s, k)
    /\ \A j \in 1..(k - 1) : ~SplitsAt(s, j)
    /\ k < Len(s)
    /\ IsDigitGroups(SubSeq(s, k + 1, Len(s)), Len(s) - k)

NameAndNumbers(pkg, s) ==
    \A k \in 1..Len(s) :
        /\ (pkg.tag = "Parsed" /\ SplitsAt(s, k) /\ \A j \in 1..(k - 1) : ~SplitsAt(s, j))
              => get_name(pkg) = SubSeq(s, 1, k - 1)
        /\ IsNameDashDigits(s, k) =>
              LET runs == SplitDots(SubSeq(s, k + 1, Len(s)))
              IN  /\ pkg.tag = "Parsed"
                  /\ get_name(pkg) = SubSeq(s, 1, k - 1)
                  /\ pkg.version.tag = "Parsed"
                  /\ pkg.version.numbers
                        = [i \in 1..Len(runs) |-> DecimalValue(runs[i])]

C12_NameDashDigitsIsParsed ==
    /\ package # NotYet => NameAndNumbers(package, full_name)
    /\ packages_package # NotYet => NameAndNumbers(packages_package, full_name)

\* C13: for every version string that matches the structured grammar,
\* parsing the rendered form of the parsed version gives back an equal
\* Parsed version (the same numbers, the same extra part, the same date).
C13_RenderedFormParsesBack ==
    /\ (MatchesStructuredGrammar(version_str) /\ reparsed # NotYet)
          => (version.tag = "Parsed" /\ reparsed = version)
    /\ (MatchesStructuredGrammar(version_str) /\ packages_reparsed # NotYet)
          => (packages_version.tag = "Parsed" /\ packages_reparsed = packages_version)

\* C14: an architecture whose raw entry collection is empty is left out of
\* the FlakePkgs that FlakePkgs::new builds, so every architecture of a built
\* FlakePkgs holds at least one package; an architecture with packages in
\* the old snapshot and none in the new one is in removed_archs and has no
\* entry in pkg_data.
GroupsOf(flake_json, flake_pkgs) ==
    /\ DOMAIN flake_pkgs.map = {arch \in DOMAIN flake_json : flake_json[arch] # <<>>}
    /\ \A arch \in DOMAIN flake_pkgs.map : DOMAIN flake_pkgs.map[arch] # {}

EmptiedArchs ==
    {arch \in DOMAIN old_json :
        /\ old_json[arch] # <<>>
        /\ arch \in DOMAIN new_json => new_json[arch] = <<>>}

C14_EmptyGroupsOmitted ==
    /\ pc \in {"old_built", "new_built", "compared"} => GroupsOf(old_json, old)
    /\ pc \in {"new_built", "compared"} => GroupsOf(new_json, new)
    /\ pc = "compared" =>
          \A arch \in EmptiedArchs :
              /\ arch \in Range(compare_data.removed_archs)
              /\ arch \notin DOMAIN compare_data.pkg_data
              /\ arch \notin Range(compare_data.added_archs)

\* The diff of an old snapshot with packages for Linux and a new snapshot
\* whose Linux object is "{}"
C14_Witness ==
    /\ pc = "compared"
    /\ Linux \in DOMAIN old_json
    /\ Len(old_json[Linux]) = MaxPkgs
    /\ Linux \in DOMAIN new_json
    /\ new_json[Linux] = <<>>
    /\ compare_data.removed_archs = <<Linux>>

\* C15: within one architecture of a FlakePkgs that FlakePkgs::new built,
\* identity keys are unique: when two raw entries have the same identity
\* key, construction does not fail and the architecture holds one package
\* under that key, the one built from the later entry in the order the raw
\* entries are visited.

Max(S) == CHOOSE x \in S : \A y \in S : y <= x

LaterEntryWins(flake_json, flake_pkgs) ==
    /\ flake_pkgs # Panic
    /\ \A arch \in DOMAIN flake_pkgs.map :
          LET built == [i \in 1..Len(flake_json[arch]) |-> PkgOf(flake_json[arch][i])]
              new_ps == flake_pkgs.map[arch]
          IN  /\ DOMAIN new_ps = {get_name(built[i]) : i \in 1..Len(built)}
              /\ \A name \in DOMAIN new_ps :
                    new_ps[name] = built[Max({i \in 1..Len(built) : get_name(built[i]) = name})]

C15_LaterEntryWins ==
    /\ pc = "old_built" => LaterEntryWins(old_json, old)
    /\ pc = "new_built" => LaterEntryWins(new_json, new)

\* Two raw entries with the identity key "foo" and different versions
C15_Witness ==
    /\ pc = "old_built"
    /\ Linux \in DOMAIN old_json
    /\ old_json[Linux] = <<PkgValue("foo-1.0.0", Some(Chars("A"))),
                           PkgValue("foo-1.1.0", Some(Chars("A")))>>
    /\ DOMAIN old.map[Linux] = {Chars("foo")}
    /\ old.map[Linux][Chars("foo")].version.numbers = <<1, 1, 0>>

\* C16: constructing a package from a full name and the empty description
\* gives the same Package as constructing it from that full name and no
\* description, so the two compare as Unchanged.
SameAsWithoutDescription(pkg, absent) ==
    /\ pkg = absent
    /\ PkgCompareData_new(pkg, absent) = Some(Unchanged)
    /\ PkgCompareData_new(absent, pkg) = Some(Unchanged)

C16_EmptyDescriptionIsAbsent ==
    /\ (description = Some(<<>>) /\ package \notin {NotYet, Panic})
          => SameAsWithoutDescription(package,
                                      PkgOf([name |-> full_name, description |-> None]))
    /\ (description = Some(<<>>) /\ packages_package \notin {NotYet, Panic})
          => SameAsWithoutDescription(packages_package,
                                      packages_Package_new(full_name, None))

\* C17: the diff is a function of the contents of its two inputs: every
\* invocation on FlakePkgs with these contents yields the same
\* FlakePkgsCompareData, the order of added, updated, removed, added_archs
\* and removed_archs included, whatever order the maps are iterated in.
C17_DiffIsOrderIndependent ==
    pc = "compared" =>
        \A ord \in IterationOrders(old, new) :
            FlakePkgsCompareData_new(old, new, ord) = compare_data

\* C18: for every list of commit messages, Nixpkgs::new returns a list of
\* NixpkgsCommit of the same length whose i-th element is the parse of the
\* i-th message; equal messages yield equal elements, each in its place
\* (nothing is dropped and nothing is moved).
C18_OneCommitPerMessage ==
    nixpkgs # NotYet =>
        /\ Len(nixpkgs.list) = Len(commits)
        /\ \A i \in 1..Len(commits) :
              /\ i <= Len(nixpkgs.list)
              /\ nixpkgs.list[i] = NixpkgsCommit_new(commits[i])
              /\ nixpkgs.list[i].tag = "Unparsable" => nixpkgs.list[i].message = commits[i]

\* A list in which the first message comes again after a different one
C18_Witness ==
    /\ nixpkgs # NotYet
    /\ Len(commits) = MaxCommits
    /\ commits[1] = commits[MaxCommits]
    /\ commits[1] # commits[2]
    /\ nixpkgs.list[1] = nixpkgs.list[MaxCommits]
    /\ nixpkgs.list[1] = Update(Chars("hello"), Chars("1.0 -> 1.1"))
    /\ nixpkgs.list[2].tag = "Unparsable"

\* C19: NixpkgsCommit::new classifies a message by the grammar, an optional
\* bracketed tag and then "<name>: <action>": Add(name) when the action is
\* "init", Remove(name) when it is "drop", Update(name, "<old> -> <new>")
\* when it is a pair of tokens, and Unparsable(the message) for every
\* message the grammar does not write.

\* The places a name can start at: the start of the message, or after a tag
\* "[..] " that the message starts with
NameStarts(m) ==
    {1} \cup {q + 2 : q \in {q \in 3..(Len(m) - 1) :
                                /\ m[1] = "["
                                /\ m[q] = "]"
                                /\ m[q + 1] = " "
                                /\ \A j \in 2..(q - 1) : m[j] # "\n"}}

\* m[st..k] is a name, and ": " follows it
IsNameAt(m, st, k) ==
    /\ st <= k
    /\ k + 2 <= Len(m)
    /\ \A j \in st..k : m[j] \notin Whitespace
    /\ m[k + 1] = ":"
    /\ m[k + 2] = " "

\* m[a..b] is a token: a run of letters, digits, "-" and "."
IsToken(m, a, b) == a <= b /\ b <= Len(m) /\ \A j \in a..b : m[j] \in VersionClass

\* m[a..b] is "<old> -> <new>"
IsTokenPair(m, a, b) ==
    \E r \in a..b : IsToken(m, a, r) /\ StartsWithAt(m, r + 1, Arrow) /\ IsToken(m, r + 5, b)

\* What the grammar makes of the message when the action is all that
\* follows ": "
WholeReadings(m) ==
    UNION {LET name == SubSeq(m, st, k)
               action == SubSeq(m, k + 3, Len(m))
           IN  IF ~IsNameAt(m, st, k) THEN {}
               ELSE IF action = InitLit THEN {Add(name)}
               ELSE IF action = DropLit THEN {Remove(name)}
               ELSE IF IsTokenPair(m, k + 3, Len(m)) THEN {Update(name, action)}
               ELSE {}
           : st \in NameStarts(m), k \in 1..Len(m)}

ClassifiedAs(readings, m, commit) ==
    IF readings = {} THEN commit = CommitUnparsable(m) ELSE commit \in readings

Scenario(m, commit) ==
    /\ m = Chars("hello: 1.0 -> 1.1") => commit = Update(Chars("hello"), Chars("1.0 -> 1.1"))
    /\ m = Chars("hello: init") => commit = Add(Chars("hello"))
    /\ m = Chars("hello: drop") => commit = Remove(Chars("hello"))
    /\ m = Chars("random text") => commit = CommitUnparsable(Chars("random text"))

C19_ClassifiedByGrammar ==
    nixpkgs # NotYet =>
        \A i \in 1..Len(commits) :
            /\ ClassifiedAs(WholeReadings(commits[i]), commits[i], nixpkgs.list[i])
            /\ Scenario(commits[i], nixpkgs.list[i])

\* C19 as amended: the grammar is matched at the start of the message and
\* what follows the action is ignored: the message is Add(name) when the
\* text after ": " begins with "init", Remove(name) when it begins with
\* "drop", otherwise Update(name, "<old> -> <new>") when it begins with a
\* pair of tokens, each as long as it can be, and Unparsable(the message)
\* when no reading of the message has such a start.

\* m[a..b] is a token that ends where the tokens' characters end
IsLongestToken(m, a, b) == IsToken(m, a, b) /\ At(m, b + 1) \notin VersionClass

PrefixReadings(m) ==
    UNION {LET name == SubSeq(m, st, k)
               a == k + 3
           IN  IF ~IsNameAt(m, st, k) THEN {}
               ELSE IF StartsWithAt(m, a, InitLit) THEN {Add(name)}
               ELSE IF StartsWithAt(m, a, DropLit) THEN {Remove(name)}
               ELSE {Update(name, SubSeq(m, a, b)) :
                        b \in {b \in a..Len(m) :
                                  \E r \in a..b : /\ IsLongestToken(m, a, r)
                                                  /\ StartsWithAt(m, r + 1, Arrow)
                                                  /\ IsLongestToken(m, r + 5, b)}}
           : st \in NameStarts(m), k \in 1..Len(m)}

C19_ClassifiedByGrammarAtStart ==
    nixpkgs # NotYet =>
        \A i \in 1..Len(commits) :
            /\ ClassifiedAs(PrefixReadings(commits[i]), commits[i], nixpkgs.list[i])
            /\ Scenario(commits[i], nixpkgs.list[i])

\* A tagged message with text after the token pair
C19_Witness ==
    /\ nixpkgs # NotYet
    /\ commits = <<Chars("[staging] hello: 1 -> 2 (x)")>>
    /\ nixpkgs.list = <<Update(Chars("hello"), Chars("1 -> 2"))>>

\* C20: in the report of the commits, the Updated list holds each distinct
\* rendered update line exactly once, however often the same update occurs
\* in the input, and its lines are in ascending lexicographic order, for
\* every order of the input.

\* The place of the line heading in the report
LineOf(lines, heading) == CHOOSE i \in 1..Len(lines) : lines[i] = heading

\* The lines of the report between "### Updated" and the empty line before
\* "### Removed"
UpdatedList(lines) ==
    SubSeq(lines, LineOf(lines, UpdatedTitle) + 1, LineOf(lines, RemovedTitle) - 2)

\* The lines the update commits of the list render to
RenderedUpdates(list) ==
    {Chars(" - ") \o c.name \o Chars(": ") \o c.version \o Chars("\n") :
        c \in {c \in Range(list) : c.tag = "Update"}}

C20_UpdatedListIsSortedSet ==
    IsSome(report) =>
        LET updated == UpdatedList(Unwrap(report))
        IN  /\ Range(updated) = RenderedUpdates(nixpkgs.list)
            /\ Len(updated) = Cardinality(RenderedUpdates(nixpkgs.list))
            /\ \A i \in 1..Len(updated) : \A j \in (i + 1)..Len(updated) :
                  StringLess(updated[i], updated[j])

\* The same update twice, around an update that sorts before it
C20_Witness ==
    /\ IsSome(report)
    /\ commits = <<Chars("hello: 1.0 -> 1.1"), Chars("abc: 2 -> 3"),
                  Chars("hello: 1.0 -> 1.1")>>
    /\ UpdatedList(Unwrap(report))
          = <<Chars(" - abc: 2 -> 3\n"), Chars(" - hello: 1.0 -> 1.1\n")>>

\* The places of the line feeds of a text
LineFeeds(text) == {i \in 1..Len(text) : text[i] = "\n"}

\* The lines of a text that a line feed ends, without the line feed: those
\* from the place start on, feeds being the places of the line feeds
RECURSIVE LinesFrom(_, _, _)
LinesFrom(text, feeds, start) ==
    IF \A p \in feeds : p < start THEN <<>>
    ELSE LET end == CHOOSE p \in feeds :
                        p >= start /\ \A q \in feeds : q >= start => p <= q
         IN  <<SubSeq(text, start, end - 1)>> \o LinesFrom(text, feeds, end + 1)

Lines(text) ==
    CHOOSE lines \in {LinesFrom(text, feeds, 1) : feeds \in {LineFeeds(text)}} : TRUE

\* The lines of the change-log report between the line heading and the
\* next empty line
ListedUnder(lines, heading) ==
    LET from == LineOf(lines, heading)
        to == CHOOSE j \in (from + 1)..Len(lines) :
                  /\ lines[j] = LineFeed
                  /\ \A k \in (from + 1)..(j - 1) : lines[k] # LineFeed
    IN  SubSeq(lines, from + 1, to - 1)

\* The line "<label><n>" of a count
CountLine(label, n) == Chars(label) \o NumToString(n)

\* The counts of the snapshot report are the lengths of the lists
SnapshotCountsAreExact(lines, data) ==
    /\ \A arch \in DOMAIN data.pkg_data :
          LET i == LineOf(lines, Chars("##### ") \o Chars(arch))
          IN  /\ lines[i + 1] = CountLine("Added: ", Len(data.pkg_data[arch].added))
              /\ lines[i + 2] = CountLine("Updated: ", Len(data.pkg_data[arch].updated))
              /\ lines[i + 3] = CountLine("Removed: ", Len(data.pkg_data[arch].removed))
    /\ LET i == LineOf(lines, Chars("#### Totals"))
           Total(f) == SumOver(DOMAIN data.pkg_data, f)
       IN  /\ lines[i + 1] = CountLine("Added Pkgs: ",
                   Total([arch \in DOMAIN data.pkg_data |-> Len(data.pkg_data[arch].added)]))
           /\ lines[i + 2] = CountLine("Updated Pkgs: ",
                   Total([arch \in DOMAIN data.pkg_data |-> Len(data.pkg_data[arch].updated)]))
           /\ lines[i + 3] = CountLine("Removed Pkgs: ",
                   Total([arch \in DOMAIN data.pkg_data |-> Len(data.pkg_data[arch].removed)]))

\* The counts of the change-log report are the numbers of lines listed
ChangeLogCountsAreExact(lines) ==
    LET i == LineOf(lines, StatsTitle)
    IN  /\ lines[i + 1] = CountLine("Pkgs Added: ", Len(ListedUnder(lines, AddedTitle)))
                              \o LineFeed
        /\ lines[i + 2] = CountLine("Pkg Updates: ", Len(ListedUnder(lines, UpdatedTitle)))
                              \o LineFeed
        /\ lines[i + 3] = CountLine("Pkgs Removed: ", Len(ListedUnder(lines, RemovedTitle)))
                              \o LineFeed

\* C21: in every generated report each count of the summary equals the
\* size of its collection: in the snapshot report the Added, Updated and
\* Removed counts of an architecture are the lengths of its added, updated
\* and removed lists and the totals are their sums over the architectures;
\* in the change-log report the three counts are the numbers of entries
\* listed in the Added, Updated and Removed sections.
C21_CountsAreExact ==
    /\ pc = "reported" =>
          \A lines \in {Lines(Unwrap(flake_report))} :
              SnapshotCountsAreExact(lines, compare_data)
    /\ IsSome(report) => ChangeLogCountsAreExact(Unwrap(report))

\* A snapshot report of two architectures, one with two updates and one
\* with one, so that the totals differ from every count of an architecture
C21_Witness ==
    /\ pc = "reported"
    /\ DOMAIN compare_data.pkg_data = {Linux, Darwin}
    /\ Len(compare_data.pkg_data[Linux].updated) = 2
    /\ Len(compare_data.pkg_data[Darwin].updated) = 1
    /\ \E lines \in {Lines(Unwrap(flake_report))} :
          lines[LineOf(lines, Chars("#### Totals")) + 2] = Chars("Updated Pkgs: 3")

\* The first place after i of a line of the report that is in the set S
\* (past the last line, when there is none)
NextLineIn(lines, i, S) ==
    LET at == {j \in (i + 1)..Len(lines) : lines[j] \in S}
    IN  IF at = {} THEN Len(lines) + 1 ELSE Min(at)

\* The lines that are not empty among those after the line from and before
\* the line to
EntryLines(lines, from, to) ==
    SelectSeq(SubSeq(lines, from + 1, to - 1), LAMBDA line : line # <<>>)

\* The entry lines of the three lists of an architecture in "Pkg Changes"
ListSections(lines, arch, archs) ==
    LET top == LineOf(lines, Chars("#### ") \o Chars(arch))
        added == NextLineIn(lines, top, {Chars("##### Added")})
        updated == NextLineIn(lines, top, {Chars("##### Updated")})
        removed == NextLineIn(lines, top, {Chars("##### Removed")})
        end == NextLineIn(lines, removed, {Chars("#### ") \o Chars(a) : a \in archs})
    IN  [added   |-> EntryLines(lines, added, updated),
         updated |-> EntryLines(lines, updated, removed),
         removed |-> EntryLines(lines, removed, end)]

\* A list of packages is written one line for each, an Unparsable one with
\* the marker
OneLineEach(list, lines) ==
    Len(list) > 0 =>
        /\ Len(lines) = Len(list)
        /\ \A k \in 1..Len(list) :
              list[k].tag = "Unparsable" =>
                  lines[k] = Chars(" - ") \o list[k].name \o Chars(": unparsable")

\* C22: in the snapshot report each of the Added, Updated and Removed lists
\* of an architecture that has n > 0 entries is written as exactly n lines,
\* one for each entry, each ended by a line feed, and an Unparsable package
\* is written with the marker "unparsable" for its version.
C22_ListsHaveOneLinePerEntry ==
    pc = "reported" =>
        \A lines \in {Lines(Unwrap(flake_report))} :
            \A arch \in DOMAIN compare_data.pkg_data :
                \A sections \in {ListSections(lines, arch, DOMAIN compare_data.pkg_data)} :
                    /\ OneLineEach(compare_data.pkg_data[arch].added, sections.added)
                    /\ OneLineEach(compare_data.pkg_data[arch].removed, sections.removed)
                    /\ Len(compare_data.pkg_data[arch].updated) > 0 =>
                          Len(sections.updated) = Len(compare_data.pkg_data[arch].updated)

\* C23: the report is a function of its input alone: for the same contents
\* of the diff (snapshot report) or the same list of commits (change-log
\* report) generate_report returns the same text, architectures and
\* entries in the same order, in whatever order the hash maps and the hash
\* sets yield their elements.
C23_ReportIsDeterministic ==
    /\ pc = "reported" =>
          \A pkg_order \in Orders(DOMAIN compare_data.pkg_data) :
              FlakePkgsCompareData_generate_report(compare_data, title, pkg_order)
                  = Unwrap(flake_report)
    /\ IsSome(report) =>
          \E base_hash \in Hashes, head_hash \in Hashes :
              \A ord \in ReportOrders(nixpkgs) :
                  Nixpkgs_generate_report(nixpkgs, base_hash, head_hash, ord)
                      = Unwrap(report)

\* The identity keys of a list of packages, in its order
KeysOf(pkgs) == [i \in 1..Len(pkgs) |-> get_name(pkgs[i])]

\* The identity keys of an updated list (each element holds the new package)
UpdatedKeysOf(updated) == [i \in 1..Len(updated) |-> get_name(updated[i][1])]

\* The keys both maps hold whose comparison is Unchanged
UnchangedKeys(old_pkgs, new_pkgs) ==
    {name \in (DOMAIN old_pkgs) \cap (DOMAIN new_pkgs) :
        PkgCompareData_new(old_pkgs[name], new_pkgs[name]) = Some(Unchanged)}

\* C24: for every architecture of both snapshots the identity keys of the
\* added, updated and removed lists are pairwise disjoint and none occurs
\* twice in a list; with u the number of shared keys whose comparison is
\* Unchanged, the new group has |added| + |updated| + u packages, which is
\* total_pkgs, and the old group has |removed| + |updated| + u.
C24_ListsPartitionTheKeys ==
    pc = "compared" =>
        \A arch \in DOMAIN compare_data.pkg_data :
            LET data == compare_data.pkg_data[arch]
                added == KeysOf(data.added)
                updated == UpdatedKeysOf(data.updated)
                removed == KeysOf(data.removed)
                u == Cardinality(UnchangedKeys(old.map[arch], new.map[arch]))
            IN  /\ NoDuplicates(added) /\ NoDuplicates(updated) /\ NoDuplicates(removed)
                /\ Range(added) \cap Range(updated) = {}
                /\ Range(added) \cap Range(removed) = {}
                /\ Range(updated) \cap Range(removed) = {}
                /\ Cardinality(DOMAIN new.map[arch]) = Len(added) + Len(updated) + u
                /\ data.total_pkgs = Len(added) + Len(updated) + u
                /\ Cardinality(DOMAIN old.map[arch]) = Len(removed) + Len(updated) + u

\* A group of an updated and an unchanged package
C24_Witness ==
    /\ pc = "compared"
    /\ Linux \in DOMAIN compare_data.pkg_data
    /\ Len(compare_data.pkg_data[Linux].updated) = 1
    /\ Cardinality(UnchangedKeys(old.map[Linux], new.map[Linux])) = 1
    /\ compare_data.pkg_data[Linux].total_pkgs = 2

\* The diff swapped is the diff data with added and removed exchanged, the
\* lists read as sets
IsSwapOf(swapped, data) ==
    /\ DOMAIN swapped.pkg_data = DOMAIN data.pkg_data
    /\ \A arch \in DOMAIN data.pkg_data :
          /\ Range(swapped.pkg_data[arch].added) = Range(data.pkg_data[arch].removed)
          /\ Range(swapped.pkg_data[arch].removed) = Range(data.pkg_data[arch].added)
          /\ Range(UpdatedKeysOf(swapped.pkg_data[arch].updated))
                = Range(UpdatedKeysOf(data.pkg_data[arch].updated))
    /\ Range(swapped.added_archs) = Range(data.removed_archs)
    /\ Range(swapped.removed_archs) = Range(data.added_archs)

\* C25: the diff of (new, old) is the diff of (old, new) swapped: in every
\* shared architecture its added packages are the removed packages of the
\* other and the reverse, its updated keys are the same, and added_archs
\* and removed_archs are exchanged, all read as sets.
C25_SwappedDiffIsSwapped ==
    pc = "compared" =>
        \A ord \in IterationOrders(new, old) :
            IsSwapOf(FlakePkgsCompareData_new(new, old, ord), compare_data)

\* A diff with a package added, one updated, and an architecture removed
C25_Witness ==
    /\ pc = "compared"
    /\ Linux \in DOMAIN compare_data.pkg_data
    /\ Len(compare_data.pkg_data[Linux].added) = 1
    /\ Len(compare_data.pkg_data[Linux].updated) = 1
    /\ compare_data.removed_archs = <<Darwin>>

\* No element of an updated list of the flake diff is Unchanged
UpdatedAreChanged(data) ==
    \A arch \in DOMAIN data.pkg_data :
        \A i \in 1..Len(data.pkg_data[arch].updated) :
            data.pkg_data[arch].updated[i][2].tag = "Changed"

\* No element of an updated list of main.rs is a pair of two Empty packages
NoEmptyPair(data) ==
    \A arch \in DOMAIN data.pkg_data :
        \A i \in 1..Len(data.pkg_data[arch].updated) :
            ~(/\ data.pkg_data[arch].updated[i][1].tag = "Empty"
              /\ data.pkg_data[arch].updated[i][2].tag = "Empty")

\* C26: the unreachable!() branches of the report code are never reached:
\* every element of an updated list that FlakePkgsCompareData::new builds
\* carries Changed, never Unchanged; no element of an updated list that
\* PackagesCompareData::new builds is a pair of two Empty packages; and no
\* report stops at unreachable!().
C26_UnreachableIsNotReached ==
    /\ pc \in {"compared", "reported"} => UpdatedAreChanged(compare_data)
    /\ IsSome(flake_report) => Unwrap(flake_report) # Panic
    /\ pc \in {"packages_compared", "written"} => NoEmptyPair(packages_compare_data)
    /\ IsSome(main_report) => Unwrap(main_report) # Unreachable

\* In main.rs, an attribute that is Empty in both snapshots beside one that
\* was Filled and is now Empty: the first is in same, the second in updated
C26_Witness ==
    /\ pc = "packages_compared"
    /\ packages_compare_data.pkg_data[Linux].same = <<main_Empty(Chars("bar"))>>
    /\ packages_compare_data.pkg_data[Linux].updated
          = <<<<main_Filled(Chars("foo"), Chars("1.0.0"), Chars("A")),
                main_Empty(Chars("foo"))>>>>

\* C27: in main.rs, genrate_report returns a report, without a panic, for
\* every PackagesCompareData that PackagesCompareData::new builds from two
\* snapshots that are not empty, with all systems and with one, an
\* architecture with an empty added, updated or removed list included.
C27_ReportNeverAborts ==
    IsSome(main_report) => ~IsPanic(Unwrap(main_report))

====
